---- MODULE Spec2Model ----
(***************************************************************************)
(* A model of template-processor (src/src/class/Processor.class.ts):      *)
(* the Processor class (process / processAsync, static and instance,      *)
(* populateList / populateListAsync) and the validator checkDOM, over a   *)
(* small DOM: a container element `list`, a heap of DocumentFragments and *)
(* the promises the caller passes in.                                     *)
(***************************************************************************)
EXTENDS Integers, Sequences, FiniteSets, TLC

VARIABLES
    list,               \* the container element: [tagName, children]
    frags,              \* heap of DocumentFragments: frags[id] is the fragment's children
    ret,                \* outcome of the last call made by the caller
    instructions,       \* the caller's synchronous processing function
    instructions_async, \* the caller's asynchronous processing function, or Null
    processor,          \* the caller's Processor on the list's template, if any
    futures,            \* the promises the caller passed as data, dataset or options
    tasks,              \* the instance processAsync calls: one async function each
    batches,            \* the populateListAsync calls: one async function each
    fills,              \* every invocation of a processing function so far
    returned,           \* every fragment a process/processAsync call returned
    documents,          \* the fragments the caller made itself, for the static functions
    console,            \* what was logged: "info", "warn"
    callerOptions,      \* the options object the caller passes, or Undefined (omitted)
    promises,           \* whether the caller passes data, dataset and options as promises
    ncalls,             \* number of calls the caller has made
    nrecords            \* records processed so far, a call without any counting as one

vars == <<list, frags, ret, instructions, instructions_async, processor, futures,
          tasks, batches, fills, returned, documents, console, callerOptions, promises,
          ncalls, nrecords>>

\* what the caller holds from construction on
caller == <<instructions, instructions_async, processor, callerOptions, promises>>

\* everything but the container, the heap and the outcome
rest == <<caller, futures, tasks, batches, fills, returned, documents, console, ncalls,
          nrecords>>

(***************************************************************************)
(* Bounds                                                                  *)
(***************************************************************************)
\* most element children a template's content has in the validation runs
MaxChildren == 3
\* most records processed in one run, over all calls; a call that processes no
\* record (an empty dataset, a failed validation) counts as one
MaxRecords == 2

(***************************************************************************)
(* DOM values                                                              *)
(***************************************************************************)
Null == "null"
Undefined == "undefined"
\* an element nobody has written to
Blank == <<>>

\* An element: its local name, what a fill function wrote into it, its element
\* children, and (for a <template>) the id of its content fragment.
El(tag, text, kids) == [tag |-> tag, text |-> text, kids |-> kids, content |-> 0]
TemplateEl(content) == [tag |-> "template", text |-> Blank, kids |-> <<>>, content |-> content]

\* the local names a template's children are drawn from
ChildTags == {"li", "tbody", "tr", "td", "dt", "dd", "span"}

\* (a conversion that knows the all-capitals names only)
toLowerCaseCapitals(s) ==
    CASE s = "OL"    -> "ol"
      [] s = "UL"    -> "ul"
      [] s = "TABLE" -> "table"
      [] s = "THEAD" -> "thead"
      [] s = "TBODY" -> "tbody"
      [] s = "TFOOT" -> "tfoot"
      [] s = "TR"    -> "tr"
      [] s = "DL"    -> "dl"
      [] s = "DIV"   -> "div"
      [] OTHER       -> s

\* String.prototype.toLowerCase on the tag names the model uses
toLowerCase(s) ==
    CASE s = "OL"    -> "ol"
      [] s = "UL"    -> "ul"
      [] s = "TABLE" -> "table"
      [] s = "THEAD" -> "thead"
      [] s = "TBODY" -> "tbody"
      [] s = "TFOOT" -> "tfoot"
      [] s = "TR"    -> "tr"
      [] s = "DL"    -> "dl"
      [] s = "DIV"   -> "div"
      [] s = "Ol"    -> "ol"
      [] s = "Dl"    -> "dl"
      [] OTHER       -> s

\* Element.matches(tag) for a type selector
matches(el, tag) == el.tag = tag

\* Element.matches('dt, dd')
matchesDtDd(el) == matches(el, "dt") \/ matches(el, "dd")

\* The paths (sequences of 1-based child indices) of all element descendants of
\* `nodes`, in document (pre-)order, from sibling i on.
RECURSIVE PreorderFrom(_, _, _)
PreorderFrom(nodes, prefix, i) ==
    IF i > Len(nodes) THEN <<>>
    ELSE <<Append(prefix, i)>>
         \o PreorderFrom(nodes[i].kids, Append(prefix, i), 1)
         \o PreorderFrom(nodes, prefix, i + 1)

Preorder(nodes) == PreorderFrom(nodes, <<>>, 1)

RECURSIVE NodeAt(_, _)
NodeAt(nodes, path) ==
    IF Len(path) = 1 THEN nodes[path[1]]
    ELSE NodeAt(nodes[path[1]].kids, Tail(path))

RECURSIVE Siblings(_, _)
Siblings(nodes, path) ==
    IF Len(path) = 1 THEN nodes
    ELSE Siblings(nodes[path[1]].kids, Tail(path))

\* the first of the paths (document order) at the positions `hits`, or Null
FirstPath(paths, hits) ==
    IF hits = {} THEN Null
    ELSE paths[CHOOSE i \in hits : \A j \in hits : i <= j]

\* ParentNode.querySelector(tag): the first descendant with that local name
querySelector(nodes, tag) ==
    LET paths == Preorder(nodes)
    IN  FirstPath(paths, {i \in 1..Len(paths) : matches(NodeAt(nodes, paths[i]), tag)})

\* ParentNode.querySelectorAll('*'): every descendant element
querySelectorAll(nodes) ==
    LET paths == Preorder(nodes)
    IN  [i \in 1..Len(paths) |-> NodeAt(nodes, paths[i])]

\* :last-of-type / :first-of-type: no later / earlier sibling of the same type
IsLastOfType(nodes, p) ==
    LET sib == Siblings(nodes, p)
        i   == p[Len(p)]
    IN  \A j \in (i + 1)..Len(sib) : sib[j].tag # sib[i].tag

IsFirstOfType(nodes, p) ==
    LET sib == Siblings(nodes, p)
        i   == p[Len(p)]
    IN  \A j \in 1..(i - 1) : sib[j].tag # sib[i].tag

\* querySelector('dt:last-of-type')
querySelectorLastOfType(nodes, tag) ==
    LET paths == Preorder(nodes)
    IN  FirstPath(paths, {i \in 1..Len(paths) :
                            matches(NodeAt(nodes, paths[i]), tag) /\ IsLastOfType(nodes, paths[i])})

\* querySelector('dd:first-of-type')
querySelectorFirstOfType(nodes, tag) ==
    LET paths == Preorder(nodes)
    IN  FirstPath(paths, {i \in 1..Len(paths) :
                            matches(NodeAt(nodes, paths[i]), tag) /\ IsFirstOfType(nodes, paths[i])})

\* [...children].indexOf(el): the 0-based position of the element among the
\* children, -1 when the element is not one of them (a deeper descendant)
indexOf(children, p) == IF Len(p) = 1 THEN p[1] - 1 ELSE -1

(***************************************************************************)
(* checkDOM                                                                *)
(***************************************************************************)
\* How a call ends: it throws an error, or returns a value (a sequence: empty for
\* undefined, a path for an element, an id for a fragment or a promise)
Throw(error, message) == [kind |-> "throw", error |-> error, message |-> message, value |-> <<>>]
Return(value) == [kind |-> "return", error |-> Null, message |-> Null, value |-> value]
\* the outcome of a call, with the name of what was called and the records it
\* was given (empty when they came as a promise)
Outcome(call, args, r) ==
    [call |-> call, args |-> args, kind |-> r.kind, error |-> r.error,
     message |-> r.message, value |-> r.value]
NoCall == Outcome("none", <<>>, Return(<<>>))

\* (a Map that falls back to li for the tags it does not know)
child_tagnameDefaultLi(tag) ==
    CASE tag \in {"ol", "ul"}                -> "li"
      [] tag = "table"                       -> "tbody"
      [] tag \in {"thead", "tbody", "tfoot"} -> "tr"
      [] tag = "tr"                          -> "td"
      [] tag = "dl"                          -> "dt-dd"
      [] OTHER                               -> "li"

\* the Map of checkDOM: container tag -> required child, `|| null`
child_tagname(tag) ==
    CASE tag \in {"ol", "ul"}                -> "li"
      [] tag = "table"                       -> "tbody"
      [] tag \in {"thead", "tbody", "tfoot"} -> "tr"
      [] tag = "tr"                          -> "td"
      [] tag = "dl"                          -> "dt-dd"
      [] OTHER                               -> Null

\* (a check of the first child's type alone, whatever follows it)
checkSingleFirstOnly(template, children, required) ==
    IF Len(children) < 1
    THEN Throw("TypeError", "exactly 1 element")
    ELSE IF ~matches(children[1], required)
    THEN Throw("TypeError", "exactly 1 required")
    ELSE Return(template)

\* the branch of checkDOM for ol/ul/table/thead/tfoot/tbody/tr
checkSingle(template, children, required) ==
    IF Len(children) # 1
    THEN Throw("TypeError", "exactly 1 element")
    ELSE IF ~matches(children[1], required)
    THEN Throw("TypeError", "exactly 1 required")
    ELSE Return(template)

\* (a dl branch that tests the order before it looks for foreign elements)
checkDlOrderFirst(template, children) ==
    IF Len(children) < 2
    THEN Throw("TypeError", "at least 2 elements")
    ELSE IF querySelector(children, "dt") = Null \/ querySelector(children, "dd") = Null
    THEN Throw("TypeError", "at least 1 dt and 1 dd")
    ELSE IF indexOf(children, querySelectorLastOfType(children, "dt"))
            >= indexOf(children, querySelectorFirstOfType(children, "dd"))
    THEN Throw("TypeError", "dd must follow dt")
    ELSE IF \E i \in DOMAIN querySelectorAll(children) : ~matchesDtDd(querySelectorAll(children)[i])
    THEN Throw("TypeError", "only dt or dd")
    ELSE Return(template)

\* (an order test that looks at the first dt instead of the last)
checkDlFirstDt(template, children) ==
    IF Len(children) < 2
    THEN Throw("TypeError", "at least 2 elements")
    ELSE IF querySelector(children, "dt") = Null \/ querySelector(children, "dd") = Null
    THEN Throw("TypeError", "at least 1 dt and 1 dd")
    ELSE IF \E i \in DOMAIN querySelectorAll(children) : ~matchesDtDd(querySelectorAll(children)[i])
    THEN Throw("TypeError", "only dt or dd")
    ELSE IF indexOf(children, querySelectorFirstOfType(children, "dt"))
            >= indexOf(children, querySelectorFirstOfType(children, "dd"))
    THEN Throw("TypeError", "dd must follow dt")
    ELSE Return(template)

\* the branch of checkDOM for dl
checkDl(template, children) ==
    IF Len(children) < 2
    THEN Throw("TypeError", "at least 2 elements")
    ELSE IF querySelector(children, "dt") = Null \/ querySelector(children, "dd") = Null
    THEN Throw("TypeError", "at least 1 dt and 1 dd")
    ELSE IF \E i \in DOMAIN querySelectorAll(children) : ~matchesDtDd(querySelectorAll(children)[i])
    THEN Throw("TypeError", "only dt or dd")
    ELSE IF indexOf(children, querySelectorLastOfType(children, "dt"))
            >= indexOf(children, querySelectorFirstOfType(children, "dd"))
    THEN Throw("TypeError", "dd must follow dt")
    ELSE Return(template)

\* (a validator that looks the tag up before it looks for the template)
checkDOMTagFirst(l, heap) ==
    LET template == querySelector(l.children, "template")
        required == child_tagname(toLowerCase(l.tagName))
    IN  IF required = Null
        THEN Throw("TypeError", "not supported")
        ELSE IF template = Null
        THEN Throw("ReferenceError", "no template")
        ELSE IF required # "dt-dd"
        THEN checkSingle(template, heap[NodeAt(l.children, template).content], required)
        ELSE checkDl(template, heap[NodeAt(l.children, template).content])

\* (a validator that lets a dl template through without looking at its content)
checkDOMSkipDl(l, heap) ==
    LET template == querySelector(l.children, "template")
    IN  IF template = Null
        THEN Throw("ReferenceError", "no template")
        ELSE LET children == heap[NodeAt(l.children, template).content]
                 required == child_tagname(toLowerCase(l.tagName))
             IN  IF required = Null
                 THEN Throw("TypeError", "not supported")
                 ELSE IF required # "dt-dd"
                 THEN checkSingle(template, children, required)
                 ELSE Return(template)

\* checkDOM(list): the path of the template inside the list when every test
\* passes, the error thrown otherwise
checkDOM(l, heap) ==
    LET template == querySelector(l.children, "template")
    IN  IF template = Null
        THEN Throw("ReferenceError", "no template")
        ELSE LET children == heap[NodeAt(l.children, template).content]
                 required == child_tagname(toLowerCase(l.tagName))
             IN  IF required = Null
                 THEN Throw("TypeError", "not supported")
                 ELSE IF required # "dt-dd"
                 THEN checkSingle(template, children, required)
                 ELSE checkDl(template, children)

(***************************************************************************)
(* The validation runs: checkDOM applied to every container of a bounded   *)
(* family.                                                                 *)
(***************************************************************************)
Leaf(tag) == El(tag, Blank, <<>>)

\* sequences of length 0..n over S
SeqsUpTo(S, n) == UNION {[1..k -> S] : k \in 0..n}

\* template contents whose children have no element of their own
FlatContents == SeqsUpTo({Leaf(t) : t \in ChildTags}, MaxChildren)

\* what a dt or dd of a template may hold
NestedKids == {<<>>, <<Leaf("span")>>, <<Leaf("dt")>>, <<Leaf("dd")>>}

\* template contents made of dt and dd that hold elements themselves, and the
\* single-child contents with an element inside
NestedContents ==
    SeqsUpTo({El(t, Blank, k) : t \in {"dt", "dd"}, k \in NestedKids}, MaxChildren)
    \cup {<<El(t, Blank, <<Leaf("span")>>)>> : t \in ChildTags}

CheckedContents == FlatContents \cup NestedContents

\* Element.tagName is upper case in an HTML document, and keeps its case in XML
CheckedTagNames == {"OL", "UL", "TABLE", "THEAD", "TBODY", "TFOOT", "TR", "DL", "DIV"}

CaseTagNames == {"ol", "dl", "Ol", "Dl", "div"}

\* a few contents for the containers that vary something else than the content
FewContents ==
    { <<>>, <<Leaf("li")>>, <<Leaf("td")>>, <<Leaf("li"), Leaf("li")>>,
      <<Leaf("dt"), Leaf("dd")>>, <<Leaf("dd"), Leaf("dt")>> }

\* where the template sits among the container's children (none at all included)
CheckedLayouts ==
    { <<>>,
      <<Leaf("li")>>,
      <<Leaf("li"), TemplateEl(1)>>,
      <<TemplateEl(1), Leaf("li")>> }

\* the containers validated: every content under every tag with the template as
\* the only child, and the other layouts and tag spellings with a few contents
CheckedContainers ==
    {<<[tagName |-> t, children |-> <<TemplateEl(1)>>], <<c>>>> :
        t \in CheckedTagNames, c \in CheckedContents}
    \cup {<<[tagName |-> t, children |-> k], <<c>>>> :
        t \in CheckedTagNames \cup CaseTagNames, k \in CheckedLayouts, c \in FewContents}
    \cup {<<[tagName |-> t, children |-> <<TemplateEl(1)>>], <<c>>>> :
        t \in CaseTagNames, c \in FewContents}


(***************************************************************************)
(* Processing functions, fragments and promises                            *)
(***************************************************************************)
\* the `{}` an omitted options argument defaults to
EmptyObject == "{}"

\* the data records and the options object of the callers modelled
Data == {"a", "b"}
Options == {"opts"}
Datasets == SeqsUpTo(Data, MaxRecords)

\* The processing functions of the callers modelled. "mark" writes the data and
\* the options into every top-level element of the fragment, "grow" does the
\* same and appends one more element to the fragment, "noop" is `() => {}`,
\* "strict" does as "mark" but refuses record "b": it throws (or, as an
\* asynchronous function, its promise rejects) and leaves the fragment alone.
Fills == {"mark", "grow"}

\* the processing function throws on this record
Throws(fill, data) == fill = "strict" /\ data = "b"

ApplyFill(fill, children, data, opts) ==
    LET marked == [i \in DOMAIN children |-> [children[i] EXCEPT !.text = <<data, opts>>]]
    IN  CASE fill = "mark" -> marked
          [] fill = "grow" -> Append(marked, El("span", <<data, opts>>, <<>>))
          [] fill = "strict" /\ ~Throws(fill, data) -> marked
          [] OTHER         -> children

\* An argument that may be a promise: a plain value, or a promise of `futures`
Val(v) == [kind |-> "value", v |-> v, id |-> 0]
Fut(i) == [kind |-> "promise", v |-> Null, id |-> i]

\* (an await that does not wait)
SettledAlways(arg) == TRUE
\* `await arg` can resume: a plain value, or a promise that has resolved
Settled(arg) == IF arg.kind = "value" THEN TRUE ELSE futures[arg.id].state = "resolved"
\* the value `await arg` resumes with
Awaited(arg) == IF arg.kind = "value" THEN arg.v ELSE futures[arg.id].value

\* (a clone that is the fragment itself)
cloneNodeShared(heap, id) == [heap |-> heap, frag |-> id]
\* Node.cloneNode(true) of a fragment: a new fragment holding copies of the children
cloneNode(heap, id) == [heap |-> Append(heap, heap[id]), frag |-> Len(heap) + 1]

\* (ParentNode.prepend in its place: the new children come first)
RECURSIVE appendPrepend(_, _, _)
appendPrepend(children, heap, ids) ==
    IF ids = <<>> THEN [children |-> children, heap |-> heap]
    ELSE LET r == appendPrepend(children, [heap EXCEPT ![Head(ids)] = <<>>], Tail(ids))
         IN  [children |-> heap[Head(ids)] \o r.children, heap |-> r.heap]

\* ParentNode.append(...fragments): the children of each fragment, in argument
\* order, move to the end of the parent, which leaves the fragment empty
RECURSIVE append(_, _, _)
append(children, heap, ids) ==
    IF ids = <<>> THEN [children |-> children, heap |-> heap]
    ELSE append(children \o heap[Head(ids)], [heap EXCEPT ![Head(ids)] = <<>>], Tail(ids))

\* template.content of the template element at `path` of the list
contentOf(l, path) == NodeAt(l.children, path).content

\* new Processor(template, instructions, instructions_async)
NewProcessor(template, instr, instr_async) ==
    [TEMPLATE |-> template, INSTRUCTIONS |-> instr, INSTRUCTIONS_ASYNC |-> instr_async]

\* the caller holds no Processor (its list has no valid template)
NoProcessor == [TEMPLATE |-> <<>>, INSTRUCTIONS |-> Null, INSTRUCTIONS_ASYNC |-> Null]

\* one invocation of a processing function, as recorded in `fills`
Invocation(by, frag, data, opts) == [by |-> by, frag |-> frag, data |-> data, opts |-> opts]

\* (a static process that fills and returns a copy of what it was given)
staticProcessOnCopy(heap, frag, instr, data, options, by) ==
    LET opts == IF options = Undefined THEN EmptyObject ELSE options
    IN  [heap  |-> Append(heap, ApplyFill(instr, heap[frag], data, opts)),
         value |-> Len(heap) + 1,
         fills |-> {Invocation(by, Len(heap) + 1, data, opts)},
         threw |-> Throws(instr, data)]

\* (a static process without a default for its options)
staticProcessNoDefault(heap, frag, instr, data, options, by) ==
    [heap  |-> [heap EXCEPT ![frag] = ApplyFill(instr, heap[frag], data, options)],
     value |-> frag,
     fills |-> {Invocation(by, frag, data, options)},
     threw |-> Throws(instr, data)]

\* static process(frag, instructions, data, options = {}): the heap after the
\* processing function ran on frag, and frag itself as the value returned;
\* threw when the function threw instead, and the exception goes on to the caller
staticProcess(heap, frag, instr, data, options, by) ==
    LET opts == IF options = Undefined THEN EmptyObject ELSE options
    IN  [heap  |-> [heap EXCEPT ![frag] = ApplyFill(instr, heap[frag], data, opts)],
         value |-> frag,
         fills |-> {Invocation(by, frag, data, opts)},
         threw |-> Throws(instr, data)]

\* (a process that runs the asynchronous instructions when there are any)
processPreferAsync(heap, l, proc, data, options, by) ==
    LET c == cloneNode(heap, contentOf(l, proc.TEMPLATE))
        r == staticProcess(c.heap, c.frag,
                           IF proc.INSTRUCTIONS_ASYNC # Null THEN proc.INSTRUCTIONS_ASYNC
                           ELSE proc.INSTRUCTIONS,
                           data, options, by)
    IN  [heap |-> r.heap, value |-> r.value, fills |-> r.fills, threw |-> r.threw,
         console |-> IF proc.INSTRUCTIONS_ASYNC # Null THEN {"info"} ELSE {}]

\* instance process(data, options): clone the template's content, fill the clone
process(heap, l, proc, data, options, by) ==
    LET c == cloneNode(heap, contentOf(l, proc.TEMPLATE))
        r == staticProcess(c.heap, c.frag, proc.INSTRUCTIONS, data, options, by)
    IN  [heap |-> r.heap, value |-> r.value, fills |-> r.fills, threw |-> r.threw,
         console |-> IF proc.INSTRUCTIONS_ASYNC # Null THEN {"info"} ELSE {}]

\* (a map that walks the dataset from its last record to its first)
RECURSIVE mapProcessBackwards(_, _, _, _, _, _, _)
mapProcessBackwards(heap, l, proc, dataset, options, call, i) ==
    IF i > Len(dataset)
    THEN [heap |-> heap, values |-> <<>>, fills |-> {}, console |-> {}, threw |-> FALSE]
    ELSE LET r == process(heap, l, proc, dataset[Len(dataset) + 1 - i], options, <<call, i>>)
             m == mapProcessBackwards(r.heap, l, proc, dataset, options, call, i + 1)
         IN  IF r.threw
             THEN [heap |-> r.heap, values |-> <<>>, fills |-> r.fills, console |-> r.console,
                   threw |-> TRUE]
             ELSE [heap |-> m.heap, values |-> <<r.value>> \o m.values,
                   fills |-> r.fills \cup m.fills, console |-> r.console \cup m.console,
                   threw |-> m.threw]

\* (a map that skips the records the processing function throws on, and goes on)
RECURSIVE mapProcessCatch(_, _, _, _, _, _, _)
mapProcessCatch(heap, l, proc, dataset, options, call, i) ==
    IF i > Len(dataset)
    THEN [heap |-> heap, values |-> <<>>, fills |-> {}, console |-> {}, threw |-> FALSE]
    ELSE LET r == process(heap, l, proc, dataset[i], options, <<call, i>>)
             m == mapProcessCatch(r.heap, l, proc, dataset, options, call, i + 1)
         IN  [heap |-> m.heap,
              values |-> (IF r.threw THEN <<>> ELSE <<r.value>>) \o m.values,
              fills |-> r.fills \cup m.fills, console |-> r.console \cup m.console,
              threw |-> FALSE]

\* dataset.map((data) => processor.process(data, options)), from record i on;
\* a processing function that throws ends the map there
RECURSIVE mapProcess(_, _, _, _, _, _, _)
mapProcess(heap, l, proc, dataset, options, call, i) ==
    IF i > Len(dataset)
    THEN [heap |-> heap, values |-> <<>>, fills |-> {}, console |-> {}, threw |-> FALSE]
    ELSE LET r == process(heap, l, proc, dataset[i], options, <<call, i>>)
             m == mapProcess(r.heap, l, proc, dataset, options, call, i + 1)
         IN  IF r.threw
             THEN [heap |-> r.heap, values |-> <<>>, fills |-> r.fills, console |-> r.console,
                   threw |-> TRUE]
             ELSE [heap |-> m.heap, values |-> <<r.value>> \o m.values,
                   fills |-> r.fills \cup m.fills, console |-> r.console \cup m.console,
                   threw |-> m.threw]

(***************************************************************************)
(* The asynchronous functions                                              *)
(***************************************************************************)
\* A promise the caller passes: pending until the caller's environment resolves it
Pending(type) ==
    [type |-> type, state |-> "pending", value |-> IF type = "dataset" THEN <<>> ELSE Null]

\* the arguments the caller passes for a parameter of values S: a fresh promise
\* (Fut(0)) when it passes promises, each value otherwise
ArgForms(S) == IF promises THEN {Fut(0)} ELSE {Val(v) : v \in S}

\* the options argument the caller passes: nothing, its options object, or the
\* one promise of it that it made at the start (futures[1])
OptionsArg == IF callerOptions = Undefined THEN Val(Undefined)
              ELSE IF promises THEN Fut(1) ELSE Val(callerOptions)

\* what a call costs of the run's records
Cost(dataset) == IF Len(dataset) = 0 THEN 1 ELSE Len(dataset)

\* the promises after the caller made `arg`, and the argument as passed
NewArg(futs, arg, type) ==
    IF arg.kind = "promise"
    THEN [futures |-> Append(futs, Pending(type)), arg |-> Fut(Len(futs) + 1)]
    ELSE [futures |-> futs, arg |-> arg]

\* static processAsync(frag, instructions, data, options = {}) up to its first
\* await, which is `await data`; proc carries the instructions
staticProcessAsync(frag, proc, data, options, by, batch) ==
    [pc |-> "awaitData", by |-> by, batch |-> batch, proc |-> proc, frag |-> frag,
     data |-> data,
     options |-> IF options = Val(Undefined) THEN Val(EmptyObject) ELSE options,
     d |-> Null, o |-> Null]

\* (a processAsync whose fallback says nothing)
processAsyncSilent(heap, l, proc, data, options, by, batch) ==
    IF proc.INSTRUCTIONS_ASYNC = Null
    THEN [heap |-> heap, console |-> {},
          task |-> [pc |-> "awaitData", by |-> by, batch |-> batch, proc |-> proc, frag |-> 0,
                    data |-> data, options |-> options, d |-> Null, o |-> Null]]
    ELSE LET c == cloneNode(heap, contentOf(l, proc.TEMPLATE))
         IN  [heap |-> c.heap, console |-> {},
              task |-> staticProcessAsync(c.frag, proc, data, options, by, batch)]

\* (a processAsync that leaves the cloning for later in either case)
processAsyncLateClone(heap, l, proc, data, options, by, batch) ==
    [heap |-> heap, console |-> IF proc.INSTRUCTIONS_ASYNC = Null THEN {"warn"} ELSE {},
     task |-> [pc |-> "awaitData", by |-> by, batch |-> batch, proc |-> proc, frag |-> 0,
               data |-> data, options |-> options, d |-> Null, o |-> Null]]

\* An instance processAsync call up to its first await. Without asynchronous
\* instructions it warns and awaits data before anything else (frag 0: no clone
\* yet); with them it clones at once and enters static processAsync, whose
\* options default to {} and which awaits data first.
processAsync(heap, l, proc, data, options, by, batch) ==
    IF proc.INSTRUCTIONS_ASYNC = Null
    THEN [heap |-> heap, console |-> {"warn"},
          task |-> [pc |-> "awaitData", by |-> by, batch |-> batch, proc |-> proc, frag |-> 0,
                    data |-> data, options |-> options, d |-> Null, o |-> Null]]
    ELSE LET c == cloneNode(heap, contentOf(l, proc.TEMPLATE))
         IN  [heap |-> c.heap, console |-> {},
              task |-> staticProcessAsync(c.frag, proc, data, options, by, batch)]

\* dataset.map((data) => processor.processAsync(data, options)), from record i on
RECURSIVE mapProcessAsync(_, _, _, _, _, _, _, _)
mapProcessAsync(heap, l, proc, dataset, options, call, batch, i) ==
    IF i > Len(dataset)
    THEN [heap |-> heap, tasks |-> <<>>, console |-> {}]
    ELSE LET r == processAsync(heap, l, proc, Val(dataset[i]), options, <<call, i>>, batch)
             m == mapProcessAsync(r.heap, l, proc, dataset, options, call, batch, i + 1)
         IN  [heap |-> m.heap, tasks |-> <<r.task>> \o m.tasks, console |-> r.console \cup m.console]

(***************************************************************************)
(* The caller's program                                                    *)
(***************************************************************************)
\* the containers of the runs: valid ones (one with children of its own, a dl)
\* and one for each way validation fails
Containers ==
    { <<[tagName |-> "TR", children |-> <<El("td", <<"old">>, <<>>), TemplateEl(1)>>], <<<<Leaf("td")>>>>>>,
      <<[tagName |-> "DL", children |-> <<TemplateEl(1)>>], <<<<Leaf("dt"), Leaf("dd")>>>>>>,
      <<[tagName |-> "UL", children |-> <<Leaf("li")>>], <<>>>>,
      <<[tagName |-> "DIV", children |-> <<TemplateEl(1)>>], <<<<Leaf("li")>>>>>>,
      <<[tagName |-> "DL", children |-> <<TemplateEl(1)>>], <<<<Leaf("dd"), Leaf("dt")>>>>>> }

\* containers of every tag without a template anywhere, empty or not
NoTemplateContainers ==
    {<<[tagName |-> t, children |-> k], <<>>>> :
        t \in CheckedTagNames, k \in {<<>>, <<El("li", Blank, <<Leaf("span")>>)>>}}

\* the processing functions the caller holds: synchronous, asynchronous or Null
CallerFills == {<<"mark", Null>>, <<"grow", "mark">>}

\* the options the caller passes, and whether it passes promises
CallerArgs == {<<Undefined, FALSE>>, <<"opts", FALSE>>, <<"opts", TRUE>>}

Init ==
    /\ \E c \in Containers \cup NoTemplateContainers : list = c[1] /\ frags = c[2]
    /\ ret = NoCall
    /\ \E f \in CallerFills : instructions = f[1] /\ instructions_async = f[2]
    /\ \E a \in CallerArgs : callerOptions = a[1] /\ promises = a[2]
    /\ processor = IF checkDOM(list, frags).kind = "throw" THEN NoProcessor
                   ELSE NewProcessor(querySelector(list.children, "template"),
                                     instructions, instructions_async)
    /\ futures = IF promises THEN <<Pending("options")>> ELSE <<>>
    /\ tasks = <<>>
    /\ batches = <<>>
    /\ fills = {}
    /\ returned = {}
    /\ documents = {}
    /\ console = {}
    /\ ncalls = 0
    /\ nrecords = 0

\* processor.process(data, options)
CallProcess(data) ==
    /\ nrecords < MaxRecords
    /\ processor # NoProcessor
    /\ LET r == process(frags, list, processor, data, callerOptions, <<ncalls + 1, 0>>)
       IN  /\ frags' = r.heap
           /\ fills' = fills \cup r.fills
           /\ console' = console \cup r.console
           /\ returned' = IF r.threw THEN returned
                           ELSE returned \cup {[by |-> <<ncalls + 1, 0>>, frag |-> r.value]}
           /\ ret' = Outcome("process", <<data>>,
                           IF r.threw THEN Throw("Error", "instructions")
                           ELSE Return(<<r.value>>))
    /\ ncalls' = ncalls + 1
    /\ nrecords' = nrecords + 1
    /\ UNCHANGED <<list, caller, documents, futures, tasks, batches>>

\* Processor.populateList(list, instructions, dataset, options)
CallPopulateList(dataset) ==
    /\ nrecords + Cost(dataset) <= MaxRecords
    /\ LET template == checkDOM(list, frags)
       IN  IF template.kind = "throw"
           THEN /\ ret' = Outcome("populateList", dataset, template)
                /\ UNCHANGED <<list, frags, fills, console, returned>>
           ELSE LET proc == NewProcessor(template.value, instructions, Null)
                    m == mapProcess(frags, list, proc, dataset, callerOptions, ncalls + 1, 1)
                    a == append(list.children, m.heap, m.values)
                IN  /\ list' = IF m.threw THEN list ELSE [list EXCEPT !.children = a.children]
                    /\ frags' = IF m.threw THEN m.heap ELSE a.heap
                    /\ fills' = fills \cup m.fills
                    /\ console' = console \cup m.console
                    /\ returned' = returned \cup
                            {[by |-> <<ncalls + 1, i>>, frag |-> m.values[i]] : i \in DOMAIN m.values}
                    /\ ret' = Outcome("populateList", dataset,
                                    IF m.threw THEN Throw("Error", "instructions")
                                    ELSE Return(<<>>))
    /\ ncalls' = ncalls + 1
    /\ nrecords' = nrecords + Cost(dataset)
    /\ UNCHANGED <<caller, documents, futures, tasks, batches>>

\* processor.processAsync(data, options): runs to its first await and returns
\* the promise of the task
CallProcessAsync(data) ==
    /\ nrecords < MaxRecords
    /\ processor # NoProcessor
    /\ LET d == NewArg(futures, data, "data")
           r == processAsync(frags, list, processor, d.arg, OptionsArg, <<ncalls + 1, 0>>, 0)
       IN  /\ futures' = d.futures
           /\ frags' = r.heap
           /\ console' = console \cup r.console
           /\ tasks' = Append(tasks, r.task)
           /\ ret' = Outcome("processAsync", IF data.kind = "value" THEN <<data.v>> ELSE <<>>,
                           Return(<<Len(tasks) + 1>>))
    /\ ncalls' = ncalls + 1
    /\ nrecords' = nrecords + 1
    /\ UNCHANGED <<list, caller, documents, batches, fills, returned>>

\* Processor.populateListAsync(list, instructions_async, dataset, options): an
\* async function, so an error checkDOM throws rejects the promise returned;
\* otherwise it runs up to `await dataset`. `turn` is the place of the batch
\* among the batches whose Promise.all has fulfilled (0: not yet).
populateListAsync(dataset) ==
    /\ LET template == checkDOM(list, frags)
           d == NewArg(futures, dataset, "dataset")
       IN  /\ futures' = d.futures
           /\ batches' = Append(batches,
                [pc |-> IF template.kind = "throw" THEN "rejected" ELSE "awaitDataset",
                 call |-> ncalls + 1,
                 error |-> template.error,
                 proc |-> IF template.kind = "throw" THEN NoProcessor
                          ELSE NewProcessor(template.value, "noop", instructions_async),
                 dataset |-> d.arg, options |-> OptionsArg, tasks |-> <<>>, settled |-> <<>>,
                 turn |-> 0])
           /\ ret' = Outcome("populateListAsync", IF dataset.kind = "value" THEN dataset.v ELSE <<>>,
                           Return(<<Len(batches) + 1>>))
    /\ ncalls' = ncalls + 1
    /\ nrecords' = nrecords + (IF dataset.kind = "promise" THEN 1 ELSE Cost(dataset.v))
    /\ UNCHANGED <<list, frags, caller, documents, tasks, fills, returned, console>>

\* a populateListAsync call of the caller, within the records of the run
CallPopulateListAsync(dataset) ==
    /\ instructions_async # Null
    /\ nrecords + (IF dataset.kind = "promise" THEN 1 ELSE Cost(dataset.v)) <= MaxRecords
    /\ populateListAsync(dataset)

\* the document (or fragment) the caller makes to hand to a static function
CallerDocument == <<El("a", Blank, <<>>)>>

\* Processor.process(document, instructions, data, options), by the caller of a
\* valid list, on a document of its own; the callers modelled process their
\* document before they do anything else
CallStaticProcess(data) ==
    /\ ncalls = 0
    /\ processor # NoProcessor
    /\ LET doc == Len(frags) + 1
           r == staticProcess(Append(frags, CallerDocument), doc, instructions, data,
                              callerOptions, <<ncalls + 1, 0>>)
       IN  /\ frags' = r.heap
           /\ fills' = fills \cup r.fills
           /\ documents' = documents \cup {doc}
           /\ ret' = Outcome("Processor.process", <<data>>,
                           IF r.threw THEN Throw("Error", "instructions")
                           ELSE Return(<<r.value>>))
    /\ ncalls' = ncalls + 1
    /\ nrecords' = nrecords + 1
    /\ UNCHANGED <<list, caller, futures, tasks, batches, returned, console>>

\* Processor.processAsync(document, instructions_async, data, options): runs to
\* its first await and returns the promise of the task
CallStaticProcessAsync(data) ==
    /\ ncalls = 0
    /\ processor # NoProcessor
    /\ instructions_async # Null
    /\ LET d == NewArg(futures, data, "data")
           doc == Len(frags) + 1
       IN  /\ futures' = d.futures
           /\ frags' = Append(frags, CallerDocument)
           /\ documents' = documents \cup {doc}
           /\ tasks' = Append(tasks, staticProcessAsync(doc, NewProcessor(<<>>, Null, instructions_async),
                                                       d.arg, OptionsArg, <<ncalls + 1, 0>>, 0))
           /\ ret' = Outcome("Processor.processAsync", IF data.kind = "value" THEN <<data.v>> ELSE <<>>,
                           Return(<<Len(tasks) + 1>>))
    /\ ncalls' = ncalls + 1
    /\ nrecords' = nrecords + 1
    /\ UNCHANGED <<list, caller, batches, fills, returned, console>>

\* what a promise of each kind resolves to
ValuesOf(type) ==
    CASE type = "data"    -> Data
      [] type = "dataset" -> Datasets
      [] OTHER            -> {callerOptions}

\* the environment resolves a promise the caller passed
ResolveFuture(f, value) ==
    /\ futures[f].state = "pending"
    /\ futures' = [futures EXCEPT ![f] = [@ EXCEPT !.state = "resolved", !.value = value]]
    /\ IF futures[f].type = "dataset"
       THEN /\ nrecords + Cost(value) - 1 <= MaxRecords
            /\ nrecords' = nrecords + Cost(value) - 1
       ELSE nrecords' = nrecords
    /\ UNCHANGED <<list, frags, ret, caller, documents, tasks, batches, fills, returned, console, ncalls>>

\* the environment rejects the dataset promise the caller passed
RejectFuture(f) ==
    /\ futures[f].state = "pending"
    /\ futures[f].type = "dataset"
    /\ futures' = [futures EXCEPT ![f] = [@ EXCEPT !.state = "rejected"]]
    /\ UNCHANGED <<list, frags, ret, caller, documents, tasks, batches, fills, returned, console,
                   ncalls, nrecords>>

\* `await data` of a task resumes
TaskAwaitData(t) ==
    /\ tasks[t].pc = "awaitData"
    /\ Settled(tasks[t].data)
    /\ tasks' = [tasks EXCEPT ![t] = [@ EXCEPT !.pc = "awaitOptions", !.d = Awaited(tasks[t].data)]]
    /\ UNCHANGED <<list, frags, ret, caller, documents, futures, batches, fills, returned, console,
                   ncalls, nrecords>>

\* the turn of the next batch whose Promise.all fulfils
NextTurn == Cardinality({c \in DOMAIN batches : batches[c].turn > 0}) + 1

\* the promise of task t fulfils: Promise.all of its batch, if it has one, takes
\* note, and fulfils when t was the last of the batch
settle(b, t) ==
    IF b = 0 THEN batches
    ELSE [batches EXCEPT ![b] =
            [@ EXCEPT !.settled = Append(@, t),
                      !.turn = IF \A i \in DOMAIN batches[b].tasks :
                                     \/ batches[b].tasks[i] = t
                                     \/ tasks[batches[b].tasks[i]].pc = "fulfilled"
                               THEN NextTurn ELSE 0]]

\* (record-level calls made one after the other: each awaited before the next)
canInvokeInTurn(t) ==
    \A u \in 1..(t - 1) :
        (tasks[t].batch # 0 /\ tasks[u].batch = tasks[t].batch) => tasks[u].pc = "fulfilled"
\* (record-level calls that hold their function back until the batch is done)
canInvokeAfterBatch(t) ==
    IF tasks[t].batch = 0 THEN TRUE ELSE batches[tasks[t].batch].pc = "fulfilled"
\* what a record-level processAsync waits for besides its own data and options:
\* nothing, map() calls them all without awaiting any
canInvoke(t) == TRUE

\* `await options` of a task with asynchronous instructions resumes: static
\* processAsync invokes the instructions on the clone, and awaits them
TaskInvoke(t) ==
    /\ tasks[t].pc = "awaitOptions"
    /\ tasks[t].proc.INSTRUCTIONS_ASYNC # Null
    /\ Settled(tasks[t].options)
    /\ canInvoke(t)
    /\ LET o == Awaited(tasks[t].options)
       IN  /\ tasks' = [tasks EXCEPT ![t] = [@ EXCEPT !.pc = "filling", !.o = o]]
           /\ fills' = fills \cup {Invocation(tasks[t].by, tasks[t].frag, tasks[t].d, o)}
    /\ UNCHANGED <<list, frags, ret, caller, documents, futures, batches, returned, console,
                   ncalls, nrecords>>

\* the asynchronous instructions of a task complete: the clone is filled, and
\* the task's promise resolves to it; or they reject, and so does the promise
TaskFilled(t) ==
    /\ tasks[t].pc = "filling"
    /\ IF Throws(tasks[t].proc.INSTRUCTIONS_ASYNC, tasks[t].d)
       THEN /\ tasks' = [tasks EXCEPT ![t] = [@ EXCEPT !.pc = "rejected"]]
            /\ UNCHANGED <<frags, returned, batches>>
       ELSE /\ frags' = [frags EXCEPT ![tasks[t].frag] =
                            ApplyFill(tasks[t].proc.INSTRUCTIONS_ASYNC, @, tasks[t].d, tasks[t].o)]
            /\ tasks' = [tasks EXCEPT ![t] = [@ EXCEPT !.pc = "fulfilled"]]
            /\ returned' = returned \cup {[by |-> tasks[t].by, frag |-> tasks[t].frag]}
            /\ batches' = settle(tasks[t].batch, t)
    /\ UNCHANGED <<list, ret, caller, documents, futures, fills, console, ncalls, nrecords>>

\* `await options` of a task without asynchronous instructions resumes:
\* `return this.process(await data, await options)`; what process throws
\* rejects the task's promise
TaskFallback(t) ==
    /\ tasks[t].pc = "awaitOptions"
    /\ tasks[t].proc.INSTRUCTIONS_ASYNC = Null
    /\ Settled(tasks[t].options)
    /\ LET o == Awaited(tasks[t].options)
           r == process(frags, list, tasks[t].proc, tasks[t].d, o, tasks[t].by)
       IN  /\ frags' = r.heap
           /\ fills' = fills \cup r.fills
           /\ console' = console \cup r.console
           /\ IF r.threw
              THEN /\ tasks' = [tasks EXCEPT ![t] = [@ EXCEPT !.pc = "rejected", !.o = o]]
                   /\ UNCHANGED <<returned, batches>>
              ELSE /\ tasks' = [tasks EXCEPT ![t] =
                                    [@ EXCEPT !.pc = "fulfilled", !.o = o, !.frag = r.value]]
                   /\ returned' = returned \cup {[by |-> tasks[t].by, frag |-> r.value]}
                   /\ batches' = settle(tasks[t].batch, t)
    /\ UNCHANGED <<list, ret, caller, documents, futures, ncalls, nrecords>>

\* `await dataset` of a batch resumes: every record's processAsync is called,
\* in dataset order, and the batch awaits Promise.all of their promises
BatchMap(b) ==
    /\ batches[b].pc = "awaitDataset"
    /\ Settled(batches[b].dataset)
    /\ LET m == mapProcessAsync(frags, list, batches[b].proc, Awaited(batches[b].dataset),
                                batches[b].options, batches[b].call, b, 1)
       IN  /\ frags' = m.heap
           /\ console' = console \cup m.console
           /\ tasks' = tasks \o m.tasks
           /\ batches' = [batches EXCEPT ![b] = [@ EXCEPT !.pc = "awaitAll",
                            !.tasks = [i \in DOMAIN m.tasks |-> Len(tasks) + i],
                            !.turn = IF m.tasks = <<>> THEN NextTurn ELSE 0]]
    /\ UNCHANGED <<list, ret, caller, documents, futures, fills, returned, ncalls, nrecords>>

\* `await dataset` of a batch throws: the promise populateListAsync returned rejects
BatchDatasetRejected(b) ==
    /\ batches[b].pc = "awaitDataset"
    /\ batches[b].dataset.kind = "promise"
    /\ futures[batches[b].dataset.id].state = "rejected"
    /\ batches' = [batches EXCEPT ![b] = [@ EXCEPT !.pc = "rejected", !.error = "rejection"]]
    /\ UNCHANGED <<list, frags, ret, caller, documents, futures, tasks, fills, returned, console,
                   ncalls, nrecords>>

\* (a Promise.all that hands the results over in the order they came in)
promiseAllByCompletion(b) ==
    [i \in DOMAIN batches[b].settled |-> tasks[batches[b].settled[i]].frag]
\* the fragments Promise.all resolves to: the tasks' results, in the order the
\* promises were passed
promiseAll(b) == [i \in DOMAIN batches[b].tasks |-> tasks[batches[b].tasks[i]].frag]

\* (a join that resumes as soon as one promise has fulfilled)
allSettledAny(b) == \E i \in DOMAIN batches[b].tasks : tasks[batches[b].tasks[i]].pc = "fulfilled"
\* (a join that waits for every promise and fulfils however each one ended)
allSettledEitherWay(b) ==
    \A i \in DOMAIN batches[b].tasks : tasks[batches[b].tasks[i]].pc \in {"fulfilled", "rejected"}
\* Promise.all fulfils once every promise passed has fulfilled
allSettled(b) == \A i \in DOMAIN batches[b].tasks : tasks[batches[b].tasks[i]].pc = "fulfilled"

\* (continuations that resume in any order)
inTurnAny(b) == TRUE
\* the continuation of `await Promise.all(...)` of batch b is the next to run:
\* promise jobs run in the order their promises fulfilled
inTurn(b) ==
    \A c \in DOMAIN batches :
        (batches[c].pc = "awaitAll" /\ batches[c].turn > 0) => batches[b].turn <= batches[c].turn

\* Promise.all of a batch has resolved: list.append(...fragments)
BatchAppend(b) ==
    /\ batches[b].pc = "awaitAll"
    /\ allSettled(b)
    /\ inTurn(b)
    /\ LET a == append(list.children, frags, promiseAll(b))
       IN  /\ list' = [list EXCEPT !.children = a.children]
           /\ frags' = a.heap
    /\ batches' = [batches EXCEPT ![b] = [@ EXCEPT !.pc = "fulfilled"]]
    /\ UNCHANGED <<ret, caller, documents, futures, tasks, fills, returned, console, ncalls, nrecords>>

Next ==
    \/ \E data \in Data : CallProcess(data)
    \/ \E dataset \in Datasets : CallPopulateList(dataset)
    \/ \E data \in ArgForms(Data) : CallProcessAsync(data)
    \/ \E dataset \in ArgForms(Datasets) : CallPopulateListAsync(dataset)
    \/ \E data \in Data : CallStaticProcess(data)
    \/ \E data \in ArgForms(Data) : CallStaticProcessAsync(data)
    \/ \E f \in DOMAIN futures : \E value \in ValuesOf(futures[f].type) : ResolveFuture(f, value)
    \/ \E f \in DOMAIN futures : RejectFuture(f)
    \/ \E t \in DOMAIN tasks : TaskAwaitData(t)
    \/ \E t \in DOMAIN tasks : TaskInvoke(t)
    \/ \E t \in DOMAIN tasks : TaskFilled(t)
    \/ \E t \in DOMAIN tasks : TaskFallback(t)
    \/ \E b \in DOMAIN batches : BatchMap(b)
    \/ \E b \in DOMAIN batches : BatchDatasetRejected(b)
    \/ \E b \in DOMAIN batches : BatchAppend(b)

Spec == Init /\ [][Next]_vars

(***************************************************************************)
(* The validation runs                                                     *)
(***************************************************************************)
InitCheckDOM ==
    /\ \E c \in CheckedContainers : list = c[1] /\ frags = c[2]
    /\ ret = NoCall
    /\ instructions = "mark"
    /\ instructions_async = Null
    /\ processor = NoProcessor
    /\ callerOptions = Undefined
    /\ promises = FALSE
    /\ futures = <<>>
    /\ tasks = <<>>
    /\ batches = <<>>
    /\ fills = {}
    /\ returned = {}
    /\ documents = {}
    /\ console = {}
    /\ ncalls = 0
    /\ nrecords = 0

\* the caller runs the validator on the container
RunCheckDOM ==
    /\ ret = NoCall
    /\ ret' = Outcome("checkDOM", <<>>, checkDOM(list, frags))
    /\ UNCHANGED <<list, frags, rest>>

NextCheckDOM == RunCheckDOM

SpecCheckDOM == InitCheckDOM /\ [][NextCheckDOM]_vars

(***************************************************************************)
(* The validation runs on containers with two templates                    *)
(***************************************************************************)
\* two templates as children, and a template inside an li before or after a
\* template child
TemplateLayouts ==
    { <<TemplateEl(1), TemplateEl(2)>>,
      <<El("li", Blank, <<TemplateEl(2)>>), TemplateEl(1)>>,
      <<TemplateEl(1), El("li", Blank, <<TemplateEl(2)>>)>> }

TemplateContainers ==
    {<<[tagName |-> t, children |-> k], <<c, d>>>> :
        t \in {"OL", "TR", "DL", "DIV"}, k \in TemplateLayouts, c \in FewContents, d \in FewContents}

InitTemplates ==
    /\ \E c \in TemplateContainers : list = c[1] /\ frags = c[2]
    /\ ret = NoCall
    /\ instructions = "mark"
    /\ instructions_async = Null
    /\ processor = NoProcessor
    /\ callerOptions = Undefined
    /\ promises = FALSE
    /\ futures = <<>>
    /\ tasks = <<>>
    /\ batches = <<>>
    /\ fills = {}
    /\ returned = {}
    /\ documents = {}
    /\ console = {}
    /\ ncalls = 0
    /\ nrecords = 0

NextTemplates == RunCheckDOM

SpecTemplates == InitTemplates /\ [][NextTemplates]_vars

(***************************************************************************)
(* The specification's own terms, which the properties below are stated in *)
(***************************************************************************)
\* the container has a <template> child
HasTemplate(l) == \E i \in DOMAIN l.children : l.children[i].tag = "template"

\* the children of the content of the container's first <template> child
TemplateChildren(l, heap) ==
    LET first == CHOOSE i \in DOMAIN l.children :
                    /\ l.children[i].tag = "template"
                    /\ \A j \in 1..(i - 1) : l.children[j].tag # "template"
    IN  heap[l.children[first].content]

\* the containers with one required template child, and that child
SingleChildTags == {"ol", "ul", "table", "thead", "tbody", "tfoot", "tr"}
RequiredChild(tag) ==
    CASE tag \in {"ol", "ul"} -> "li"
      [] tag = "table" -> "tbody"
      [] tag \in {"thead", "tbody", "tfoot"} -> "tr"
      [] tag = "tr" -> "td"

\* the rule for the children of a dl template
DlRule(c) ==
    /\ \E i \in DOMAIN c : c[i].tag = "dt"
    /\ \E i \in DOMAIN c : c[i].tag = "dd"
    /\ \A i \in DOMAIN c : c[i].tag \in {"dt", "dd"}
    /\ \A i, j \in DOMAIN c : (c[i].tag = "dt" /\ c[j].tag = "dd") => i < j

\* no child holds an element of its own
Flat(c) == \A i \in DOMAIN c : c[i].kids = <<>>

(***************************************************************************)
(* Properties of the validator (checked under SpecCheckDOM)                *)
(***************************************************************************)
\* C1: for a container ol, ul, table, thead, tbody, tfoot or tr that has a
\* template, checkDOM passes exactly when the template content has one element
\* child and that child is the required one (li, tbody, tr, td); every other
\* content fails with a TypeError.
C1_SingleChildValidation ==
    (/\ ret.call = "checkDOM"
     /\ HasTemplate(list)
     /\ toLowerCase(list.tagName) \in SingleChildTags)
    => LET c == TemplateChildren(list, frags)
       IN  /\ (ret.kind = "return") <=>
                (Len(c) = 1 /\ c[1].tag = RequiredChild(toLowerCase(list.tagName)))
           /\ (ret.kind = "throw") => ret.error = "TypeError"

\* a table whose template holds one tbody has passed
C1_Witness ==
    /\ ret.call = "checkDOM"
    /\ list.tagName = "TABLE"
    /\ HasTemplate(list)
    /\ TemplateChildren(list, frags) = <<Leaf("tbody")>>
    /\ ret.kind = "return"

Conforms(l, heap) ==
    /\ HasTemplate(l)
    /\ \/ /\ toLowerCase(l.tagName) \in SingleChildTags
          /\ Len(TemplateChildren(l, heap)) = 1
          /\ TemplateChildren(l, heap)[1].tag = RequiredChild(toLowerCase(l.tagName))
       \/ /\ toLowerCase(l.tagName) = "dl"
          /\ DlRule(TemplateChildren(l, heap))

\* the error a container that does not conform is refused with
ExpectedError(l) == IF HasTemplate(l) THEN "TypeError" ELSE "ReferenceError"

\* the options a processing function receives
GivenOptions == IF callerOptions = Undefined THEN EmptyObject ELSE callerOptions

\* the children of the clones of content c filled with each record, in dataset order
RECURSIVE FilledItems(_, _, _, _)
FilledItems(fill, c, dataset, opts) ==
    IF dataset = <<>> THEN <<>>
    ELSE ApplyFill(fill, c, Head(dataset), opts) \o FilledItems(fill, c, Tail(dataset), opts)

\* this step is a call of populateList that returned
PopulateListReturns ==
    /\ ncalls' = ncalls + 1
    /\ ret'.call = "populateList"
    /\ ret'.kind = "return"

\* this step is the append of batch b
BatchAppends(b) == batches[b].pc = "awaitAll" /\ batches'[b].pc = "fulfilled"

\* the ids of the content fragments of the container's templates
TemplateContents(l) == {l.children[i].content : i \in {j \in DOMAIN l.children : l.children[j].tag = "template"}}

\* C3 as stated: populateList with N records appends exactly N children, the
\* i-th being the i-th record's filled clone, behind the children that were there.
C3_ExactlyN ==
    [][PopulateListReturns =>
        /\ Len(list'.children) = Len(list.children) + Len(ret'.args)
        /\ SubSeq(list'.children, 1, Len(list.children)) = list.children
        /\ \A i \in DOMAIN ret'.args :
              <<list'.children[Len(list.children) + i]>> =
                 ApplyFill(instructions, TemplateChildren(list, frags), ret'.args[i], GivenOptions)
      ]_vars

\* C3, amended: populateList appends, for each record in dataset order, all the
\* children of the clone filled with that record, behind the children that were
\* there, which stay as they were: N children when every filled clone holds one
\* element, one per dt and dd of the template and per record for a dl.
C3_AppendsFilledClones ==
    [][PopulateListReturns =>
        /\ list'.children = list.children \o
              FilledItems(instructions, TemplateChildren(list, frags), ret'.args, GivenOptions)
        /\ (instructions = "mark" /\ toLowerCase(list.tagName) \in SingleChildTags)
              => Len(list'.children) = Len(list.children) + Len(ret'.args)
        /\ (instructions = "mark" /\ toLowerCase(list.tagName) = "dl")
              => Len(list'.children) =
                    Len(list.children) + Len(ret'.args) * Len(TemplateChildren(list, frags))
      ]_vars

\* a tr that had a td of its own has been populated with two records
C3_Witness ==
    /\ ret.call = "populateList"
    /\ ret.kind = "return"
    /\ ret.args = <<"b", "a">>
    /\ list.tagName = "TR"
    /\ Len(list.children) = 4
    /\ list.children[1].text = <<"old">>

\* C4: as long as the container does not conform (no template, unsupported tag,
\* wrong template content), no step invokes a processing function, makes a
\* clone, starts a record's task or changes the container, whatever the dataset
\* and whether its promise is pending, has resolved or has rejected.
C4_NothingOnFailure ==
    [][~Conforms(list, frags) =>
        /\ fills' = fills
        /\ fills = {}
        /\ frags' = frags
        /\ tasks' = tasks
        /\ list' = list
      ]_vars

\* populateListAsync was refused twice: the dataset promise of one call has
\* rejected since, that of the other is still pending
C4_Witness ==
    /\ ~Conforms(list, frags)
    /\ ret.call = "populateListAsync"
    /\ \E b, c \in DOMAIN batches :
          /\ batches[b].pc = "rejected"
          /\ batches[b].dataset.kind = "promise"
          /\ futures[batches[b].dataset.id].state = "pending"
          /\ batches[c].pc = "rejected"
          /\ batches[c].dataset.kind = "promise"
          /\ futures[batches[c].dataset.id].state = "rejected"
    /\ fills = {}
    /\ tasks = <<>>

\* C5 as stated: on a container that does not conform, populateList and
\* populateListAsync both throw at the call.
C5_BothThrow ==
    (~Conforms(list, frags) /\ ret.call \in {"populateList", "populateListAsync"})
    => ret.kind = "throw"

\* C5, amended: on a container that does not conform, populateList throws the
\* error at the call; populateListAsync returns normally, and the promise it
\* returns is rejected with that error (ReferenceError without a template,
\* TypeError otherwise) from the start, before any data is processed.
C5_ThrowOrReject ==
    /\ (~Conforms(list, frags) /\ ret.call = "populateList")
          => (ret.kind = "throw" /\ ret.error = ExpectedError(list))
    /\ (~Conforms(list, frags) /\ ret.call = "populateListAsync")
          => /\ ret.kind = "return"
             /\ batches[ret.value[1]].pc = "rejected"
             /\ batches[ret.value[1]].error = ExpectedError(list)
             /\ batches[ret.value[1]].tasks = <<>>
    /\ \A b \in DOMAIN batches :
          IF Conforms(list, frags)
          THEN batches[b].error \notin {"ReferenceError", "TypeError"}
          ELSE batches[b].pc = "rejected" /\ batches[b].error = ExpectedError(list)

\* populateListAsync has returned a rejected promise for a dl whose dd comes first
C5_Witness ==
    /\ list.tagName = "DL"
    /\ ~Conforms(list, frags)
    /\ ret.call = "populateListAsync"
    /\ ret.kind = "return"
    /\ batches[ret.value[1]].pc = "rejected"
    /\ batches[ret.value[1]].error = "TypeError"

\* C6: when populateListAsync appends, the new children are the filled clones
\* of the records in dataset order, whatever the order the fills completed in.
C6_DatasetOrder ==
    [][\A b \in DOMAIN batches : BatchAppends(b) =>
          list'.children = list.children \o
              FilledItems(instructions_async, TemplateChildren(list, frags),
                          Awaited(batches[b].dataset), GivenOptions)
      ]_vars

\* a batch of two different records was appended after the second record's
\* fill completed first
C6_Witness ==
    \E b \in DOMAIN batches :
        /\ batches[b].pc = "fulfilled"
        /\ Len(batches[b].tasks) = 2
        /\ batches[b].settled = <<batches[b].tasks[2], batches[b].tasks[1]>>
        /\ tasks[batches[b].tasks[1]].d # tasks[batches[b].tasks[2]].d

\* the tasks of batch b whose promise has not fulfilled
Unfinished(b) == {i \in DOMAIN batches[b].tasks : tasks[batches[b].tasks[i]].pc # "fulfilled"}

\* C7: while a fill of a batch is pending, every fragment of the batch still
\* holds its children (none is in the container); and the container changes
\* only in a populateList call or in the one step of a batch, taken when all its
\* fills have completed, that moves the children of all its N fragments in.
C7_AppendOnceAllDone ==
    /\ [](\A b \in DOMAIN batches : Unfinished(b) # {} =>
            /\ batches[b].pc = "awaitAll"
            /\ \A i \in DOMAIN batches[b].tasks : frags[tasks[batches[b].tasks[i]].frag] # <<>>)
    /\ [][list' # list =>
            \/ PopulateListReturns
            \/ \E b \in DOMAIN batches :
                  /\ BatchAppends(b)
                  /\ Unfinished(b) = {}
                  /\ Len(batches[b].tasks) = Len(Awaited(batches[b].dataset))
                  /\ \A i \in DOMAIN batches[b].tasks :
                        /\ frags[tasks[batches[b].tasks[i]].frag] # <<>>
                        /\ frags'[tasks[batches[b].tasks[i]].frag] = <<>>
         ]_vars

\* one fill of a batch of two has completed, the other has not, and the
\* container holds nothing new
C7_Witness ==
    \E b \in DOMAIN batches :
        /\ batches[b].pc = "awaitAll"
        /\ Len(batches[b].tasks) = 2
        /\ Len(batches[b].settled) = 1
        /\ list.tagName = "DL"
        /\ Len(list.children) = 1

\* C8: a batch starts the processAsync of all its records at once, and a
\* record's fill is invoked as soon as its own data and options are there: it is
\* never held back by the fill of another record.
C8_FillsRunConcurrently ==
    /\ \A b \in DOMAIN batches :
          batches[b].pc = "awaitAll" => Len(batches[b].tasks) = Len(Awaited(batches[b].dataset))
    /\ \A t \in DOMAIN tasks :
          (/\ tasks[t].batch # 0
           /\ tasks[t].pc = "awaitOptions"
           /\ Settled(tasks[t].options))
          => ENABLED TaskInvoke(t)

\* two fills of one batch are in progress at the same time
C8_Witness ==
    \E t, u \in DOMAIN tasks :
        /\ t # u
        /\ tasks[t].batch # 0
        /\ tasks[t].batch = tasks[u].batch
        /\ tasks[t].pc = "filling"
        /\ tasks[u].pc = "filling"

\* C9: no step changes a template of the container or its content.
C9_TemplateNeverMutated ==
    [][\A i \in DOMAIN list.children : list.children[i].tag = "template" =>
          /\ list'.children[i] = list.children[i]
          /\ frags'[list.children[i].content] = frags[list.children[i].content]
      ]_vars

\* after a populateListAsync batch was appended and a process call returned
C9_Witness ==
    /\ ret.call = "process"
    /\ \E b \in DOMAIN batches : batches[b].pc = "fulfilled" /\ Len(batches[b].tasks) = 1
    /\ fills # {}

\* C10: two invocations of a processing function never get the same fragment,
\* nor do two returns of process / processAsync; no such fragment is a
\* template's content; and a fragment shows only its own record: it is the clone
\* untouched, the clone filled with its own data and options, or (once appended)
\* empty.
C10_FreshFragments ==
    /\ \A x, y \in fills : x.by # y.by => x.frag # y.frag
    /\ \A x, y \in returned : x.by # y.by => x.frag # y.frag
    /\ \A x \in fills \cup returned : x.frag \notin TemplateContents(list)
    /\ \A x \in {y \in fills : y.frag \notin documents} :
          \/ frags[x.frag] = <<>>
          \/ frags[x.frag] = TemplateChildren(list, frags)
          \/ \E f \in Fills : frags[x.frag] = ApplyFill(f, TemplateChildren(list, frags), x.data, x.opts)
    /\ \A x \in returned : \E y \in fills : y.by = x.by /\ y.frag = x.frag

\* two calls have returned two fragments filled with different records
C10_Witness ==
    \E x, y \in returned :
        /\ x.by # y.by
        /\ frags[x.frag] # <<>>
        /\ frags[y.frag] # <<>>
        /\ frags[x.frag] # frags[y.frag]

\* some element of the tree `nodes` has the local name `tag`
RECURSIVE HasDescendant(_, _)
HasDescendant(nodes, tag) ==
    \E i \in DOMAIN nodes : nodes[i].tag = tag \/ HasDescendant(nodes[i].kids, tag)

\* C11: on a container without a template descendant, whatever its tag,
\* populateList throws ReferenceError and the promise of populateListAsync is
\* rejected with ReferenceError; no step invokes a fill or changes the container.
C11_NoTemplate ==
    /\ [](~HasDescendant(list.children, "template") =>
            /\ ret.call = "populateList" => (ret.kind = "throw" /\ ret.error = "ReferenceError")
            /\ \A b \in DOMAIN batches :
                  batches[b].pc = "rejected" /\ batches[b].error = "ReferenceError"
            /\ fills = {})
    /\ [][~HasDescendant(list.children, "template") => (list' = list /\ frags' = frags)]_vars

\* a div (unsupported) that holds an li and no template was handed to both
\* populateList and populateListAsync
C11_Witness ==
    /\ list.tagName = "DIV"
    /\ list.children # <<>>
    /\ ~HasDescendant(list.children, "template")
    /\ ret.call = "populateList"
    /\ ret.error = "ReferenceError"
    /\ batches # <<>>
    /\ batches[1].error = "ReferenceError"

\* the spellings of one tag name, among the tag names of the validation runs
TagSpellings == {{"ol", "OL", "Ol"}, {"dl", "DL", "Dl"}, {"div", "DIV"}}

\* every spelling, in the validation runs, of a tag the validator supports
SupportedTagNames ==
    {"ol", "OL", "Ol", "UL", "TABLE", "THEAD", "TBODY", "TFOOT", "TR", "dl", "DL", "Dl"}

\* C12: the outcome of validation is the same under every spelling of the
\* container's tag name (OL, ol, Ol), for every template; and a container that
\* has a template but whose tag is none of ol, ul, table, thead, tbody, tfoot,
\* tr, dl is refused as unsupported (TypeError) whatever the template holds.
C12_CaseInsensitiveDispatch ==
    ret.call = "checkDOM" =>
        /\ \A S \in TagSpellings : list.tagName \in S =>
              \A t \in S : Outcome("checkDOM", <<>>, checkDOM([list EXCEPT !.tagName = t], frags)) = ret
        /\ (list.tagName \in {"ol", "Ol"} /\ HasTemplate(list)) =>
              ((ret.kind = "return") <=> TemplateChildren(list, frags) = <<Leaf("li")>>)
        /\ (HasDescendant(list.children, "template") /\ list.tagName \notin SupportedTagNames) =>
              /\ ret.kind = "throw"
              /\ ret.error = "TypeError"
              /\ ret.message = "not supported"

\* an Ol (mixed case) whose template holds one li has passed
C12_Witness ==
    /\ ret.call = "checkDOM"
    /\ list.tagName = "Ol"
    /\ ret.kind = "return"
    /\ list.children = <<Leaf("li"), TemplateEl(1)>>

\* the invocations of a processing function made by the call of task t
FillsOf(t) == {x \in fills : x.by = tasks[t].by}

\* the promise argument `arg` has resolved (a plain value counts as resolved)
Resolved(arg) == arg.kind = "promise" => futures[arg.id].state = "resolved"

\* what the fragment of task t held when the call got it
OriginalOf(t) ==
    IF tasks[t].frag \in documents THEN CallerDocument ELSE TemplateChildren(list, frags)

\* the processing function the call of task t runs
InstructionsOf(t) ==
    IF tasks[t].proc.INSTRUCTIONS_ASYNC # Null THEN tasks[t].proc.INSTRUCTIONS_ASYNC
    ELSE tasks[t].proc.INSTRUCTIONS

\* the options value the call of task t resolved, {} standing in for an omitted one
OptionsOf(t) ==
    IF Awaited(tasks[t].options) = Undefined THEN EmptyObject ELSE Awaited(tasks[t].options)

\* C13: while the data promise of a processAsync call (static or instance) has
\* not resolved, the call has not invoked its processing function and its
\* promise has not resolved; the function is invoked once, with the values the
\* data and options promises resolved to, and the promise resolves to the
\* fragment filled from those values.
C13_AwaitsDataThenFillsOnce ==
    \A t \in DOMAIN tasks :
        /\ ~Resolved(tasks[t].data) =>
              /\ tasks[t].pc = "awaitData"
              /\ FillsOf(t) = {}
              /\ \A x \in returned : x.by # tasks[t].by
        /\ tasks[t].pc \in {"awaitData", "awaitOptions"} => FillsOf(t) = {}
        /\ tasks[t].pc \in {"filling", "fulfilled"} =>
              /\ Resolved(tasks[t].data)
              /\ Resolved(tasks[t].options)
              /\ FillsOf(t) = {Invocation(tasks[t].by, tasks[t].frag,
                                          Awaited(tasks[t].data), OptionsOf(t))}
              /\ Awaited(tasks[t].data) \in Data
              /\ OptionsOf(t) \in Options \cup {EmptyObject}
        /\ tasks[t].pc = "fulfilled" =>
              /\ [by |-> tasks[t].by, frag |-> tasks[t].frag] \in returned
              /\ \/ frags[tasks[t].frag] = <<>>
                 \/ frags[tasks[t].frag] =
                       ApplyFill(InstructionsOf(t), OriginalOf(t),
                                 Awaited(tasks[t].data), OptionsOf(t))

\* a static and an instance processAsync call, both given promises for data and
\* options, have resolved to their filled fragments
C13_Witness ==
    \E t, u \in DOMAIN tasks :
        /\ tasks[t].frag \in documents
        /\ tasks[u].frag \notin documents
        /\ tasks[u].batch = 0
        /\ \A k \in {t, u} :
              /\ tasks[k].pc = "fulfilled"
              /\ tasks[k].data.kind = "promise"
              /\ tasks[k].options.kind = "promise"
              /\ tasks[k].proc.INSTRUCTIONS_ASYNC # Null
              /\ frags[tasks[k].frag] # <<>>

\* this step is a call of static process by the caller
StaticProcessReturns == ncalls' = ncalls + 1 /\ ret'.call = "Processor.process"

\* C14: static process invokes the processing function once, with the object it
\* was given, the data and the options, and returns that very object: no other
\* fragment comes into being, and the object itself holds what the function did.
C14_StaticProcessInPlace ==
    [][StaticProcessReturns =>
        LET doc == CHOOSE d \in documents' : d \notin documents
        IN  /\ documents' = documents \cup {doc}
            /\ ret'.kind = "return"
            /\ ret'.value = <<doc>>
            /\ fills' \ fills = {Invocation(<<ncalls', 0>>, doc, ret'.args[1], GivenOptions)}
            /\ DOMAIN frags' = DOMAIN frags \cup {doc}
            /\ \A i \in DOMAIN frags : frags'[i] = frags[i]
            /\ frags'[doc] = ApplyFill(instructions, CallerDocument, ret'.args[1], GivenOptions)
            /\ frags'[doc] # CallerDocument
      ]_vars

\* static process has returned the caller's document, filled with record b
C14_Witness ==
    /\ ret.call = "Processor.process"
    /\ ret.args = <<"b">>
    /\ ret.value[1] \in documents
    /\ frags[ret.value[1]] # CallerDocument

\* this step is a call of instance process by the caller
ProcessReturns == ncalls' = ncalls + 1 /\ ret'.call = "process"

\* C15: instance process on a Processor that has asynchronous instructions
\* returns normally, logs the advice, and returns a fresh clone of the template
\* filled by one invocation of the synchronous instructions (not the
\* asynchronous ones); without asynchronous instructions it logs nothing.
C15_ProcessWithAsyncPresent ==
    [][ProcessReturns =>
        LET frag == ret'.value[1]
        IN  /\ ret'.kind = "return"
            /\ frag \notin DOMAIN frags
            /\ frag \in DOMAIN frags'
            /\ fills' \ fills = {Invocation(<<ncalls', 0>>, frag, ret'.args[1], GivenOptions)}
            /\ frags'[frag] =
                  ApplyFill(instructions, TemplateChildren(list, frags), ret'.args[1], GivenOptions)
            /\ IF processor.INSTRUCTIONS_ASYNC # Null
               THEN /\ "info" \in console'
                    /\ frags'[frag] # ApplyFill(processor.INSTRUCTIONS_ASYNC,
                                                TemplateChildren(list, frags), ret'.args[1], GivenOptions)
               ELSE console' = console
      ]_vars

\* process has returned a filled clone (one more element than the template has)
\* on a Processor with asynchronous instructions, and the advice was logged
C15_Witness ==
    /\ ret.call = "process"
    /\ ret.kind = "return"
    /\ processor.INSTRUCTIONS_ASYNC = "mark"
    /\ processor.INSTRUCTIONS = "grow"
    /\ console = {"info"}
    /\ Len(frags[ret.value[1]]) = Len(TemplateChildren(list, frags)) + 1

\* the processAsync calls made on a Processor without asynchronous instructions
FallbackTasks == {t \in DOMAIN tasks : tasks[t].proc.INSTRUCTIONS_ASYNC = Null}

\* C16: instance processAsync on a Processor without asynchronous instructions
\* logs the warning, invokes nothing before data and options have resolved, can
\* always go on once they have, and resolves to the fragment that
\* process(resolved data, resolved options) returns: a fresh clone filled by one
\* invocation of the synchronous instructions.
C16_FallbackToProcess ==
    /\ [](\A t \in FallbackTasks :
            /\ "warn" \in console
            /\ tasks[t].pc # "fulfilled" => (FillsOf(t) = {} /\ tasks[t].frag = 0)
            /\ (tasks[t].pc = "awaitData" /\ Resolved(tasks[t].data)) => ENABLED TaskAwaitData(t)
            /\ (tasks[t].pc = "awaitOptions" /\ Resolved(tasks[t].options)) => ENABLED TaskFallback(t)
            /\ tasks[t].pc = "fulfilled" =>
                  /\ FillsOf(t) = {Invocation(tasks[t].by, tasks[t].frag,
                                              Awaited(tasks[t].data), OptionsOf(t))}
                  /\ frags[tasks[t].frag] =
                        ApplyFill(instructions, TemplateChildren(list, frags),
                                  Awaited(tasks[t].data), OptionsOf(t)))
    /\ [][\A t \in FallbackTasks : (tasks[t].pc # "fulfilled" /\ tasks'[t].pc = "fulfilled") =>
            LET r == process(frags, list, processor, Awaited(tasks[t].data),
                             Awaited(tasks[t].options), tasks[t].by)
            IN  /\ Resolved(tasks[t].data)
                /\ Resolved(tasks[t].options)
                /\ tasks'[t].frag = r.value
                /\ frags' = r.heap
                /\ fills' = fills \cup r.fills
                /\ r.value \notin DOMAIN frags
         ]_vars

\* a processAsync call given promises, on a Processor without asynchronous
\* instructions, has resolved to a filled clone, and the warning was logged
C16_Witness ==
    \E t \in FallbackTasks :
        /\ tasks[t].pc = "fulfilled"
        /\ tasks[t].data.kind = "promise"
        /\ tasks[t].options.kind = "promise"
        /\ console = {"warn"}
        /\ frags[tasks[t].frag] # TemplateChildren(list, frags)

\* C17: for a dl whose template's children are one or more dt followed by one
\* or more dd, validation passes whatever elements those dt and dd hold inside.
C17_NestedContentIgnored ==
    (/\ ret.call = "checkDOM"
     /\ toLowerCase(list.tagName) = "dl"
     /\ HasTemplate(list)
     /\ DlRule(TemplateChildren(list, frags)))
    => ret.kind = "return"

\* the position of the container's first <template> child
FirstTemplateChild(l) ==
    CHOOSE i \in DOMAIN l.children :
        /\ l.children[i].tag = "template"
        /\ \A j \in 1..(i - 1) : l.children[j].tag # "template"

\* C18: in a container with several templates the first template child is the
\* one validated and the one handed on for cloning, whatever other templates
\* there are, a template nested in another child included.
C18_FirstTemplateChild ==
    (ret.call = "checkDOM" /\ HasTemplate(list)) =>
        /\ (ret.kind = "return") <=> Conforms(list, frags)
        /\ ret.kind = "return" => ret.value = <<FirstTemplateChild(list)>>

\* C19: when the caller omits the options argument, every invocation of a
\* processing function, from whichever entry point, receives the empty object,
\* and what it writes of its options into the fragment is the empty object; no
\* invocation ever receives undefined.
C19_OptionsDefault ==
    /\ \A x \in fills : x.opts # Undefined
    /\ callerOptions = Undefined =>
          /\ \A x \in fills : x.opts = EmptyObject
          /\ \A t \in DOMAIN tasks : tasks[t].pc \in {"filling", "fulfilled"} => OptionsOf(t) = EmptyObject
          /\ \A f \in DOMAIN frags : \A i \in DOMAIN frags[f] :
                frags[f][i].text # Blank => frags[f][i].text[2] = EmptyObject
          /\ \A i \in DOMAIN list.children :
                list.children[i].text \notin {Blank, <<"old">>} => list.children[i].text[2] = EmptyObject

\* without options, static process has filled the caller's document and
\* populateListAsync has appended a record's filled clone
C19_Witness ==
    /\ callerOptions = Undefined
    /\ ret.call = "populateListAsync"
    /\ \E x \in fills : x.frag \in documents /\ x.opts = EmptyObject /\ frags[x.frag] # CallerDocument
    /\ \E b \in DOMAIN batches : batches[b].pc = "fulfilled" /\ Len(batches[b].tasks) = 1
    /\ list.children[Len(list.children)].text # Blank

\* C20: nothing but the completion of its own fill takes a call out of its
\* fill: as long as a fill of a batch has not completed, the promise of
\* populateListAsync stays pending and the append cannot happen, however many
\* other fills of the batch have completed; a processAsync call in its fill has
\* not resolved; and no step settles either in another way.
C20_NoCancellation ==
    /\ [](\A b \in DOMAIN batches :
            /\ batches[b].pc = "fulfilled" => Unfinished(b) = {}
            /\ Unfinished(b) # {} => (batches[b].pc = "awaitAll" /\ ~ENABLED BatchAppend(b)))
    /\ [](\A t \in DOMAIN tasks : tasks[t].pc = "filling" =>
            /\ \A x \in returned : x.by # tasks[t].by
            /\ frags[tasks[t].frag] = OriginalOf(t))
    /\ [][/\ Len(tasks') >= Len(tasks)
          /\ \A t \in DOMAIN tasks : (tasks[t].pc = "filling" /\ tasks'[t] # tasks[t]) =>
                /\ tasks'[t] = [tasks[t] EXCEPT !.pc = "fulfilled"]
                /\ frags'[tasks[t].frag] # frags[tasks[t].frag]
          /\ \A b \in DOMAIN batches : batches[b].pc = "awaitAll" =>
                batches'[b].pc \in {"awaitAll", "fulfilled"}
         ]_vars

\* the first fill of a batch of two is still running after the second has
\* completed: the tr holds what it held, the batch is pending
C20_Witness ==
    \E b \in DOMAIN batches :
        /\ batches[b].pc = "awaitAll"
        /\ Len(batches[b].tasks) = 2
        /\ tasks[batches[b].tasks[1]].pc = "filling"
        /\ tasks[batches[b].tasks[2]].pc = "fulfilled"
        /\ list.tagName = "TR"
        /\ Len(list.children) = 2

(***************************************************************************)
(* The manual composition that populateList stands for                     *)
(***************************************************************************)
\* list.append(...dataset.map((data) => processor.process(data, options))),
\* with the Processor the caller constructed on the list's template
CallManual(dataset) ==
    /\ nrecords + Cost(dataset) <= MaxRecords
    /\ processor # NoProcessor
    /\ LET m == mapProcess(frags, list, processor, dataset, callerOptions, ncalls + 1, 1)
           a == append(list.children, m.heap, m.values)
       IN  /\ list' = IF m.threw THEN list ELSE [list EXCEPT !.children = a.children]
           /\ frags' = IF m.threw THEN m.heap ELSE a.heap
           /\ fills' = fills \cup m.fills
           /\ console' = console \cup m.console
           /\ returned' = returned \cup
                   {[by |-> <<ncalls + 1, i>>, frag |-> m.values[i]] : i \in DOMAIN m.values}
           /\ ret' = Outcome("append(map(process))", dataset,
                           IF m.threw THEN Throw("Error", "instructions") ELSE Return(<<>>))
    /\ ncalls' = ncalls + 1
    /\ nrecords' = nrecords + Cost(dataset)
    /\ UNCHANGED <<caller, documents, futures, tasks, batches>>

\* list.append(...await Promise.all((await dataset).map((data) =>
\* processor.processAsync(data, options)))), by a caller whose Processor has
\* asynchronous instructions: up to `await dataset`
CallManualAsync(dataset) ==
    /\ instructions_async # Null
    /\ processor # NoProcessor
    /\ nrecords + (IF dataset.kind = "promise" THEN 1 ELSE Cost(dataset.v)) <= MaxRecords
    /\ LET d == NewArg(futures, dataset, "dataset")
       IN  /\ futures' = d.futures
           /\ batches' = Append(batches,
                [pc |-> "awaitDataset", call |-> ncalls + 1, error |-> Null, proc |-> processor,
                 dataset |-> d.arg, options |-> OptionsArg, tasks |-> <<>>, settled |-> <<>>,
                 turn |-> 0])
           /\ ret' = Outcome("append(all(map(processAsync)))",
                           IF dataset.kind = "value" THEN dataset.v ELSE <<>>,
                           Return(<<Len(batches) + 1>>))
    /\ ncalls' = ncalls + 1
    /\ nrecords' = nrecords + (IF dataset.kind = "promise" THEN 1 ELSE Cost(dataset.v))
    /\ UNCHANGED <<list, frags, caller, documents, tasks, fills, returned, console>>

\* the callers of a valid list, who populate it with the library or by hand
InitManual ==
    /\ Init
    /\ processor # NoProcessor

NextManual ==
    \/ \E dataset \in Datasets : CallPopulateList(dataset)
    \/ \E dataset \in Datasets : CallManual(dataset)
    \/ \E dataset \in ArgForms(Datasets) : CallPopulateListAsync(dataset)
    \/ \E dataset \in ArgForms(Datasets) : CallManualAsync(dataset)
    \/ \E f \in DOMAIN futures : \E value \in ValuesOf(futures[f].type) : ResolveFuture(f, value)
    \/ \E t \in DOMAIN tasks : TaskAwaitData(t)
    \/ \E t \in DOMAIN tasks : TaskInvoke(t)
    \/ \E t \in DOMAIN tasks : TaskFilled(t)
    \/ \E b \in DOMAIN batches : BatchMap(b)
    \/ \E b \in DOMAIN batches : BatchAppend(b)

SpecManual == InitManual /\ [][NextManual]_vars

\* this step is a manual composition of process calls and one append
ManualReturns ==
    /\ ncalls' = ncalls + 1
    /\ ret'.call = "append(map(process))"

\* batch b is the library's (populateListAsync constructs its Processor with
\* `() => {}` for the synchronous instructions)
IsLibraryBatch(b) == batches[b].proc.INSTRUCTIONS = "noop"

\* C21: a populateList call and the manual composition (one Processor on the
\* template, process mapped over the dataset, one append) leave the same
\* container: the children it had, then the filled clones of the template, one
\* per record in dataset order; and so do populateListAsync and the append of
\* the join of processAsync over the awaited dataset, with the async fill.
C21_SameAsManual ==
    /\ [][(PopulateListReturns \/ ManualReturns) =>
            /\ list'.tagName = list.tagName
            /\ list'.children = list.children \o
                    FilledItems(instructions, TemplateChildren(list, frags), ret'.args, GivenOptions)
            /\ TemplateChildren(list', frags') = TemplateChildren(list, frags)
         ]_vars
    /\ [][\A b \in DOMAIN batches : BatchAppends(b) =>
            /\ list'.tagName = list.tagName
            /\ list'.children = list.children \o
                    FilledItems(instructions_async, TemplateChildren(list, frags),
                                Awaited(batches[b].dataset), GivenOptions)
            /\ TemplateChildren(list', frags') = TemplateChildren(list, frags)
         ]_vars

\* the list was populated by the library and then by hand with the same
\* record, and the two children appended are the same
C21_Witness ==
    /\ ncalls = 2
    /\ Len(list.children) >= 3
    /\ list.children[Len(list.children)] = list.children[Len(list.children) - 1]
    /\ list.children[Len(list.children)].text # Blank
    /\ \/ /\ ret.call = "append(map(process))"
          /\ \E r \in fills : r.by = <<1, 1>>
       \/ /\ Len(batches) = 2
          /\ IsLibraryBatch(1) /\ ~IsLibraryBatch(2)
          /\ batches[1].pc = "fulfilled" /\ batches[2].pc = "fulfilled"

(***************************************************************************)
(* The precedence of the validator's checks (checked under SpecCheckDOM)   *)
(***************************************************************************)
\* the first check, in the order the specification gives, that content c of a
\* container with tag name tag fails; "none" when it passes them all
FirstFailure(l, c) ==
    LET tag == toLowerCase(l.tagName)
    IN  IF ~HasTemplate(l) THEN "no template"
        ELSE IF tag \notin SingleChildTags \cup {"dl"} THEN "not supported"
        ELSE IF tag \in SingleChildTags
        THEN IF Len(c) # 1 THEN "exactly 1 element"
             ELSE IF c[1].tag # RequiredChild(tag) THEN "exactly 1 required"
             ELSE "none"
        ELSE IF Len(c) < 2 THEN "at least 2 elements"
        ELSE IF ~(\E i \in DOMAIN c : c[i].tag = "dt") \/ ~(\E i \in DOMAIN c : c[i].tag = "dd")
        THEN "at least 1 dt and 1 dd"
        ELSE IF \E i \in DOMAIN c : c[i].tag \notin {"dt", "dd"} THEN "only dt or dd"
        ELSE IF \E i, j \in DOMAIN c : c[i].tag = "dt" /\ c[j].tag = "dd" /\ i > j
        THEN "dd must follow dt"
        ELSE "none"

\* C23: a checkDOM call ends in one outcome, the error of the first check that
\* fails in this order: template missing (ReferenceError, whatever the tag),
\* tag unsupported (whatever the template holds), then for a single-child
\* container the number of children before the child's tag, and for a dl (with
\* children that hold no elements) fewer than 2 children, dt or dd missing,
\* foreign element, dd before dt; it returns when none fails.
C23_CheckPrecedence ==
    (/\ ret.call = "checkDOM"
     /\ HasTemplate(list) => Flat(TemplateChildren(list, frags)))
    => LET first == FirstFailure(list, IF HasTemplate(list) THEN TemplateChildren(list, frags)
                                       ELSE <<>>)
       IN  /\ ret.kind \in {"return", "throw"}
           /\ (ret.kind = "return") <=> (first = "none")
           /\ (ret.kind = "throw") =>
                /\ ret.message = first
                /\ ret.error = IF first = "no template" THEN "ReferenceError" ELSE "TypeError"

\* a dl template with dd, span, dt (a foreign element and dd before dt) has
\* been refused for the foreign element
C23_Witness ==
    /\ ret.call = "checkDOM"
    /\ list.tagName = "DL"
    /\ HasTemplate(list)
    /\ TemplateChildren(list, frags) = <<Leaf("dd"), Leaf("span"), Leaf("dt")>>
    /\ ret.kind = "throw"
    /\ ret.message = "only dt or dd"

(***************************************************************************)
(* Callers whose processing function fails, and whose promises reject      *)
(***************************************************************************)
\* the environment rejects a data or options promise the caller passed
RejectArgument(f) ==
    /\ futures[f].state = "pending"
    /\ futures[f].type \in {"data", "options"}
    /\ futures' = [futures EXCEPT ![f] = [@ EXCEPT !.state = "rejected"]]
    /\ UNCHANGED <<list, frags, ret, caller, documents, tasks, batches, fills, returned, console,
                   ncalls, nrecords>>

\* the promise argument `arg` has rejected
Rejected(arg) == IF arg.kind = "promise" THEN futures[arg.id].state = "rejected" ELSE FALSE

\* `await data` or `await options` of a task throws: the task's promise rejects
TaskRejected(t) ==
    /\ \/ tasks[t].pc = "awaitData" /\ Rejected(tasks[t].data)
       \/ tasks[t].pc = "awaitOptions" /\ Rejected(tasks[t].options)
    /\ tasks' = [tasks EXCEPT ![t] = [@ EXCEPT !.pc = "rejected"]]
    /\ UNCHANGED <<list, frags, ret, caller, documents, futures, batches, fills, returned, console,
                   ncalls, nrecords>>

\* Promise.all of a batch rejects, one of its promises having rejected:
\* `await Promise.all(...)` throws, and the promise populateListAsync returned rejects
BatchRejected(b) ==
    /\ batches[b].pc = "awaitAll"
    /\ \E i \in DOMAIN batches[b].tasks : tasks[batches[b].tasks[i]].pc = "rejected"
    /\ batches' = [batches EXCEPT ![b] = [@ EXCEPT !.pc = "rejected", !.error = "rejection"]]
    /\ UNCHANGED <<list, frags, ret, caller, documents, futures, tasks, fills, returned, console,
                   ncalls, nrecords>>

\* the valid containers of the runs
ValidContainers == {c \in Containers : checkDOM(c[1], c[2]).kind = "return"}

\* the processing functions of the callers whose functions fail
FailingFills == {<<"strict", Null>>, <<"strict", "strict">>}

InitFail ==
    /\ \E c \in ValidContainers : list = c[1] /\ frags = c[2]
    /\ ret = NoCall
    /\ \E f \in FailingFills : instructions = f[1] /\ instructions_async = f[2]
    /\ \E a \in CallerArgs : callerOptions = a[1] /\ promises = a[2]
    /\ processor = NewProcessor(querySelector(list.children, "template"),
                                instructions, instructions_async)
    /\ futures = IF promises THEN <<Pending("options")>> ELSE <<>>
    /\ tasks = <<>>
    /\ batches = <<>>
    /\ fills = {}
    /\ returned = {}
    /\ documents = {}
    /\ console = {}
    /\ ncalls = 0
    /\ nrecords = 0

NextFail ==
    \/ \E data \in Data : CallProcess(data)
    \/ \E dataset \in Datasets : CallPopulateList(dataset)
    \/ \E data \in ArgForms(Data) : CallProcessAsync(data)
    \/ \E dataset \in ArgForms(Datasets) : CallPopulateListAsync(dataset)
    \/ \E f \in DOMAIN futures : \E value \in ValuesOf(futures[f].type) : ResolveFuture(f, value)
    \/ \E f \in DOMAIN futures : RejectFuture(f)
    \/ \E f \in DOMAIN futures : RejectArgument(f)
    \/ \E t \in DOMAIN tasks : TaskAwaitData(t)
    \/ \E t \in DOMAIN tasks : TaskInvoke(t)
    \/ \E t \in DOMAIN tasks : TaskFilled(t)
    \/ \E t \in DOMAIN tasks : TaskFallback(t)
    \/ \E t \in DOMAIN tasks : TaskRejected(t)
    \/ \E b \in DOMAIN batches : BatchMap(b)
    \/ \E b \in DOMAIN batches : BatchDatasetRejected(b)
    \/ \E b \in DOMAIN batches : BatchRejected(b)
    \/ \E b \in DOMAIN batches : BatchAppend(b)

SpecFail == InitFail /\ [][NextFail]_vars

\* the first record of the dataset that the processing function throws on (0: none)
FirstThrow(fill, dataset) ==
    IF \E i \in DOMAIN dataset : Throws(fill, dataset[i])
    THEN CHOOSE i \in DOMAIN dataset :
            /\ Throws(fill, dataset[i])
            /\ \A j \in 1..(i - 1) : ~Throws(fill, dataset[j])
    ELSE 0

\* C24: in a populateList call whose processing function throws on record k,
\* the call throws that exception, the function has been invoked for records 1
\* to k and for no record after k, and the container and the template are what
\* they were: the clones filled for the records before k are not appended.
C24_SyncAllOrNothing ==
    [][(/\ ncalls' = ncalls + 1
        /\ ret'.call = "populateList"
        /\ FirstThrow(instructions, ret'.args) # 0)
       => LET k == FirstThrow(instructions, ret'.args)
          IN  /\ ret'.kind = "throw"
              /\ ret'.error = "Error"
              /\ ret'.message = "instructions"
              /\ list' = list
              /\ TemplateChildren(list', frags') = TemplateChildren(list, frags)
              /\ {x.by : x \in fills' \ fills} = {<<ncalls + 1, i>> : i \in 1..k}
              /\ \A x \in fills' \ fills : x.data = ret'.args[x.by[2]]
      ]_vars

\* populateList has thrown on the second record of (a, b): the first was
\* filled, and the tr holds the td and template it held
C24_Witness ==
    /\ ret.call = "populateList"
    /\ ret.args = <<"a", "b">>
    /\ ret.kind = "throw"
    /\ ret.message = "instructions"
    /\ \E x \in fills : x.by = <<ncalls, 1>> /\ frags[x.frag] # <<>> /\ frags[x.frag][1].text # Blank
    /\ list.tagName = "TR"
    /\ Len(list.children) = 2

\* a task of batch b has rejected
HasRejectedTask(b) ==
    \E i \in DOMAIN batches[b].tasks : tasks[batches[b].tasks[i]].pc = "rejected"

\* C25 as stated: a populateListAsync call whose dataset promise, options
\* promise or fill of some record has rejected does not resolve.
C25_RejectsOnAnyRejection ==
    \A b \in DOMAIN batches :
        (Rejected(batches[b].dataset) \/ Rejected(batches[b].options) \/ HasRejectedTask(b))
            => batches[b].pc # "fulfilled"

\* batch b cannot succeed: its dataset promise has rejected, its options
\* promise has rejected and it has records to process, or a record's
\* processAsync has rejected
Doomed(b) ==
    \/ Rejected(batches[b].dataset)
    \/ Rejected(batches[b].options) /\ batches[b].tasks # <<>>
    \/ HasRejectedTask(b)

\* C25: a populateListAsync call whose dataset promise has rejected, whose
\* options promise has rejected while it has at least one record, or one of
\* whose fills has rejected, never resolves and never appends (each of its
\* fragments keeps its children, the container changes only by other calls),
\* and its promise can reject as soon as one record's has; rejecting it changes
\* no task, and a fill that is running can always complete; a processAsync
\* whose data or options promise has rejected has not invoked the function.
C25_AsyncAllOrNothing ==
    /\ [](\A b \in DOMAIN batches : Doomed(b) =>
            /\ batches[b].pc \in {"awaitDataset", "awaitAll", "rejected"}
            /\ \A i \in DOMAIN batches[b].tasks : frags[tasks[batches[b].tasks[i]].frag] # <<>>
            /\ (batches[b].pc = "awaitAll" /\ HasRejectedTask(b)) => ENABLED BatchRejected(b))
    /\ [][list' # list =>
            \/ PopulateListReturns
            \/ \E b \in DOMAIN batches : BatchAppends(b) /\ ~Doomed(b)]_vars
    /\ [][(\E b \in DOMAIN batches : batches[b].pc # "rejected" /\ batches'[b].pc = "rejected")
            => tasks' = tasks]_vars
    /\ [](\A t \in DOMAIN tasks : tasks[t].pc = "filling" => ENABLED TaskFilled(t))
    /\ [](\A t \in DOMAIN tasks : (Rejected(tasks[t].data) \/ Rejected(tasks[t].options)) =>
            \A x \in fills : x.by # tasks[t].by)

\* the promise of populateListAsync on (b, a) has rejected after the fill of b
\* did, while the fill of a is still running; the tr holds what it held
C25_Witness ==
    \E b \in DOMAIN batches :
        /\ batches[b].pc = "rejected"
        /\ Len(batches[b].tasks) = 2
        /\ tasks[batches[b].tasks[1]].pc = "rejected"
        /\ tasks[batches[b].tasks[1]].d = "b"
        /\ tasks[batches[b].tasks[2]].pc = "filling"
        /\ list.tagName = "TR"
        /\ Len(list.children) = 2

(***************************************************************************)
(* Callers who change the template while calls are pending                 *)
(***************************************************************************)
\* the template content has been changed by the caller
Edited(children) == children # <<>> /\ children[1].kids # <<>>

\* the caller puts an element into the first child of the template's content
EditTemplate ==
    /\ processor # NoProcessor
    /\ ~Edited(frags[contentOf(list, processor.TEMPLATE)])
    /\ frags' = [frags EXCEPT ![contentOf(list, processor.TEMPLATE)][1].kids = <<Leaf("span")>>]
    /\ UNCHANGED <<list, ret, rest>>

\* the callers of a valid list who pass promises, or plain values and no options
InitEdit ==
    /\ Init
    /\ processor # NoProcessor
    /\ promises \/ callerOptions = Undefined

NextEdit ==
    \/ EditTemplate
    \/ \E data \in ArgForms(Data) : CallProcessAsync(data)
    \/ \E dataset \in ArgForms(Datasets) : CallPopulateListAsync(dataset)
    \/ \E f \in DOMAIN futures : \E value \in ValuesOf(futures[f].type) : ResolveFuture(f, value)
    \/ \E t \in DOMAIN tasks : TaskAwaitData(t)
    \/ \E t \in DOMAIN tasks : TaskInvoke(t)
    \/ \E t \in DOMAIN tasks : TaskFilled(t)
    \/ \E t \in DOMAIN tasks : TaskFallback(t)
    \/ \E b \in DOMAIN batches : BatchMap(b)
    \/ \E b \in DOMAIN batches : BatchAppend(b)

SpecEdit == InitEdit /\ [][NextEdit]_vars

\* C26: a processAsync call on a Processor with asynchronous instructions has,
\* when it returns its promise, a clone of the template as it is at the call,
\* with nothing awaited and nothing invoked; the N calls of a populateListAsync
\* batch are made in one step after the dataset has resolved, their clones
\* created in dataset order before any function of the batch is invoked; such a
\* clone changes only when its own function fills it, so a later change of the
\* template does not reach it. Without asynchronous instructions the call holds
\* no clone while it awaits, and resolves to a clone of the template as it is
\* once data and options have resolved, filled.
C26_CloneTiming ==
    /\ [][\A t \in DOMAIN tasks' \ DOMAIN tasks :
            IF tasks'[t].proc.INSTRUCTIONS_ASYNC # Null
            THEN /\ tasks'[t].pc = "awaitData"
                 /\ tasks'[t].frag = Len(frags) + (t - Len(tasks))
                 /\ tasks'[t].frag \in DOMAIN frags'
                 /\ frags'[tasks'[t].frag] = TemplateChildren(list, frags)
                 /\ fills' = fills
                 /\ tasks'[t].batch # 0 =>
                        /\ Settled(batches[tasks'[t].batch].dataset)
                        /\ Len(tasks') - Len(tasks) = Len(Awaited(batches[tasks'[t].batch].dataset))
                        /\ tasks'[t].data = Val(Awaited(batches[tasks'[t].batch].dataset)[t - Len(tasks)])
            ELSE /\ tasks'[t].frag = 0
                 /\ frags' = frags
         ]_vars
    /\ [][\A t \in DOMAIN tasks :
            (/\ tasks[t].proc.INSTRUCTIONS_ASYNC # Null
             /\ frags'[tasks[t].frag] # frags[tasks[t].frag]
             /\ tasks[t].pc # "fulfilled")
            => /\ tasks[t].pc = "filling"
               /\ tasks'[t].pc = "fulfilled"
               /\ frags'[tasks[t].frag] = ApplyFill(tasks[t].proc.INSTRUCTIONS_ASYNC,
                                                   frags[tasks[t].frag], tasks[t].d, tasks[t].o)
         ]_vars
    /\ [](\A t \in FallbackTasks : tasks[t].pc # "fulfilled" => tasks[t].frag = 0)
    /\ [][\A t \in FallbackTasks :
            (tasks[t].pc # "fulfilled" /\ tasks'[t].pc = "fulfilled")
            => /\ Resolved(tasks[t].data)
               /\ Resolved(tasks[t].options)
               /\ tasks'[t].frag = Len(frags) + 1
               /\ frags'[tasks'[t].frag] = ApplyFill(tasks[t].proc.INSTRUCTIONS,
                                                    TemplateChildren(list, frags),
                                                    Awaited(tasks[t].data), OptionsOf(t))
         ]_vars

\* a processAsync call with asynchronous instructions awaits its data promise;
\* the template has been changed since, the clone of the call has not
C26_Witness ==
    \E t \in DOMAIN tasks :
        /\ tasks[t].proc.INSTRUCTIONS_ASYNC # Null
        /\ tasks[t].pc = "awaitData"
        /\ tasks[t].data.kind = "promise"
        /\ futures[tasks[t].data.id].state = "pending"
        /\ Edited(TemplateChildren(list, frags))
        /\ ~Edited(frags[tasks[t].frag])

(***************************************************************************)
(* Two populateListAsync calls in flight on the same list                  *)
(***************************************************************************)
\* the calls in flight
InFlight == 2

\* the datasets of the two calls: at least one record each, and no record next
\* to an equal one, so that the order of the items shows
BatchDatasets ==
    {dataset \in Datasets :
        /\ dataset # <<>>
        /\ \A i \in 1..(Len(dataset) - 1) : dataset[i] # dataset[i + 1]}

\* the tr with a td of its own, asynchronous instructions, plain arguments
InitBatches ==
    /\ Init
    /\ list.tagName = "TR"
    /\ processor # NoProcessor
    /\ instructions_async # Null
    /\ callerOptions = Undefined
    /\ ~promises

\* one of the two populateListAsync calls
CallBatch(dataset) ==
    /\ Len(batches) < InFlight
    /\ populateListAsync(Val(dataset))

NextBatches ==
    \/ \E dataset \in BatchDatasets : CallBatch(dataset)
    \/ \E t \in DOMAIN tasks : TaskAwaitData(t)
    \/ \E t \in DOMAIN tasks : TaskInvoke(t)
    \/ \E t \in DOMAIN tasks : TaskFilled(t)
    \/ \E b \in DOMAIN batches : BatchMap(b)
    \/ \E b \in DOMAIN batches : BatchAppend(b)

SpecBatches == InitBatches /\ [][NextBatches]_vars

\* the children the tr of these runs has before any call
PreExisting == (CHOOSE c \in ValidContainers : c[1].tagName = "TR")[1].children

\* the items of batch b: the filled clones of its records, in dataset order
ItemsOf(b) ==
    FilledItems(instructions_async, TemplateChildren(list, frags), Awaited(batches[b].dataset),
                GivenOptions)

\* every fill of batch b has completed, and b has not been appended
Ready(b) == batches[b].pc = "awaitAll" /\ Unfinished(b) = {}

\* C27: with two populateListAsync calls in flight on one list, the container
\* changes only by the append of a batch, which puts the batch's items, all of
\* them and in dataset order, behind the children present; a batch is appended
\* when all its fills have completed, and before a batch whose fills completed
\* later, whichever was called first; when both are done the container holds
\* its own children, then the items of the batch that completed first, then
\* those of the other.
C27_TwoBatches ==
    /\ [][list' # list =>
            \E b \in DOMAIN batches :
                /\ BatchAppends(b)
                /\ Unfinished(b) = {}
                /\ list'.children = list.children \o ItemsOf(b)
                /\ \A c \in DOMAIN batches : (c # b /\ Ready(c)) => batches[b].turn < batches[c].turn
         ]_vars
    /\ [][\A b \in DOMAIN batches :
            /\ batches[b].turn # 0 => batches'[b].turn = batches[b].turn
            /\ (batches[b].turn = 0 /\ batches'[b].turn # 0) =>
                  /\ Unfinished(b) # {}
                  /\ \A i \in DOMAIN batches'[b].tasks : tasks'[batches'[b].tasks[i]].pc = "fulfilled"
                  /\ \A c \in DOMAIN batches : batches[c].turn < batches'[b].turn
         ]_vars
    /\ []((Len(batches) = InFlight /\ \A b \in DOMAIN batches : batches[b].pc = "fulfilled") =>
            \E b, c \in DOMAIN batches :
                /\ batches[b].turn < batches[c].turn
                /\ list.children = PreExisting \o ItemsOf(b) \o ItemsOf(c))

\* the second call, on (b, a), has been appended while a fill of the first, on
\* (a, b), is still running: the tr holds its td and template, then b, a
C27_Witness ==
    /\ Len(batches) = 2
    /\ Awaited(batches[1].dataset) = <<"a", "b">>
    /\ Awaited(batches[2].dataset) = <<"b", "a">>
    /\ batches[1].pc = "awaitAll"
    /\ Unfinished(1) # {}
    /\ Len(batches[1].settled) = 1
    /\ batches[2].pc = "fulfilled"
    /\ list.children = PreExisting \o ItemsOf(2)

(***************************************************************************)
(* populateListAsync when every promise resolves and every fill completes  *)
(***************************************************************************)
\* a valid list, asynchronous instructions, and promises for the dataset and
\* the options
InitLive ==
    /\ Init
    /\ processor # NoProcessor
    /\ instructions_async # Null
    /\ promises

\* a promise resolves, a fill completes, or a continuation that can resume does
Progress ==
    \/ \E f \in DOMAIN futures : \E value \in ValuesOf(futures[f].type) : ResolveFuture(f, value)
    \/ \E t \in DOMAIN tasks : TaskAwaitData(t)
    \/ \E t \in DOMAIN tasks : TaskInvoke(t)
    \/ \E t \in DOMAIN tasks : TaskFilled(t)
    \/ \E b \in DOMAIN batches : BatchMap(b)
    \/ \E b \in DOMAIN batches : BatchAppend(b)

NextLive ==
    \/ \E dataset \in ArgForms(Datasets) : CallPopulateListAsync(dataset)
    \/ Progress

\* The job queue runs every continuation that can resume, and (the hypothesis
\* of the liveness property) no promise stays pending and no fill runs for ever.
SpecLive == InitLive /\ [][NextLive]_vars /\ WF_vars(Progress)

\* C22: on a valid list, with the dataset promise, the options promise and
\* every fill resolving eventually, every populateListAsync call leads to its
\* promise resolved; the promise resolves in the step of the append and in no
\* other, and that step moves the children of one fragment per record of the
\* resolved dataset into the list, in dataset order.
C22_EventuallyAppended ==
    /\ \A b \in 1..MaxRecords :
            (b \in DOMAIN batches) ~> (b \in DOMAIN batches /\ batches[b].pc = "fulfilled")
    /\ [](\A b \in DOMAIN batches : batches[b].pc = "fulfilled" =>
            /\ Len(batches[b].tasks) = Len(Awaited(batches[b].dataset))
            /\ \A i \in DOMAIN batches[b].tasks :
                  /\ tasks[batches[b].tasks[i]].pc = "fulfilled"
                  /\ frags[tasks[batches[b].tasks[i]].frag] = <<>>)
    /\ [][\A b \in DOMAIN batches :
            (batches[b].pc # "fulfilled" /\ batches'[b].pc = "fulfilled") =>
                /\ list'.children = list.children \o ItemsOf(b)
                /\ \A i \in DOMAIN batches[b].tasks :
                      frags[tasks[batches[b].tasks[i]].frag] # <<>>
         ]_vars

\* a call whose dataset promise resolved to two records has resolved, and the
\* list holds two children more than the tr had
C22_Witness ==
    \E b \in DOMAIN batches :
        /\ batches[b].pc = "fulfilled"
        /\ batches[b].dataset.kind = "promise"
        /\ batches[b].options.kind = "promise"
        /\ Len(Awaited(batches[b].dataset)) = 2
        /\ list.tagName = "TR"
        /\ Len(list.children) = Len(PreExisting) + 2

====
